---- MODULE Spec2Model ----
(***************************************************************************)
(* Chart panels and report composition of the Sensor_Box dashboard.        *)
(*                                                                         *)
(* The dashboard (pages/Dashboard/index.tsx) renders three chart panels    *)
(* (ChartsPanel, ScatterPanel, RiskHeatmapPanel) while its "charts" tab is *)
(* open.  Each panel fetches its supporting data (metric catalog, sensor   *)
(* list) when it mounts, loads chart data when its load button is pressed, *)
(* and hands a ReportSection to the dashboard's report action.             *)
(*                                                                         *)
(* The browser runs one task at a time: an action below is one event       *)
(* handler or one promise continuation, run to completion, followed by the *)
(* React effects its state changes trigger.                                *)
(***************************************************************************)
EXTENDS Integers, Sequences, FiniteSets, TLC

\* ------------------------------------------------------------------ bounds
MaxLoads == 2      \* chart requests issued in one behaviour
MaxEdits == 1      \* control changes made by the user in one behaviour
MaxMounts == 1     \* times the charts tab is opened in one behaviour
MaxFaults == 1     \* requests that fail in one behaviour
MaxSections == 2   \* longest section list handed to the report composer directly
MaxLen == 1        \* longest labels / points / rows list of a chart response

\* ------------------------------------------------------------- vocabulary
Null == "null"                     \* JS null of a string-valued state
NoData == [present |-> FALSE]      \* JS null of a response-valued state

Panels == {"timeseries", "scatter", "heatmap"}

\* The household of the session and what the backend answers for it.
HouseId == <<"H1">>
SensorsResp == << "S1", "", "S1", "S2" >>   \* getSerial of each sensor row
\* A second household the route can name, and its sensors.
OtherHouseId == <<"H2">>
OtherSensorsResp == << "S3" >>
Houses == { HouseId, OtherHouseId }
SensorsOf(house) == IF house = HouseId THEN SensorsResp ELSE OtherSensorsResp
Catalog == << "co2", "pm25", "temp" >>      \* /api/charts/metrics
AllowedMetrics == << "CO2", "temp" >>       \* selectedDisease.metrics
DiseaseKey == "asthma"
DiseaseName == "Asthma"

Lower(s) ==
    CASE s = "CO2" -> "co2"
      [] s = "TEMP" -> "temp"
      [] s = "PM25" -> "pm25"
      [] OTHER -> s

Range(s) == { s[i] : i \in DOMAIN s }

Includes(s, x) == \E i \in DOMAIN s : s[i] = x

\* const uniq = []; for (s of arr) { sn = getSerial(s); if (sn && !seen.has(sn)) push }
RECURSIVE UniqSerials(_, _)
UniqSerials(arr, acc) ==
    IF arr = <<>> THEN acc
    ELSE LET sn == Head(arr) IN
         UniqSerials(Tail(arr),
                     IF sn # "" /\ ~Includes(acc, sn) THEN Append(acc, sn) ELSE acc)

\* prev && uniq.includes(prev) ? prev : uniq[0] || ''
InitialSerial(prev, uniq) ==
    IF prev # Null /\ prev # "" /\ Includes(uniq, prev) THEN prev
    ELSE IF uniq # <<>> THEN uniq[1] ELSE ""

\* ChartsPanel / ScatterPanel: allow.has(m.metric.toLowerCase())
FilteredMetrics(all, allowed) ==
    IF all = <<>> THEN <<>>
    ELSE IF allowed = <<>> THEN all
    ELSE LET allow == { Lower(a) : a \in Range(allowed) } IN
         SelectSeq(all, LAMBDA m : Lower(m) \in allow)

\* RiskHeatmapPanel: allow.has(m.metric)
FilteredMetricsHm(all, allowed) ==
    IF all = <<>> THEN <<>>
    ELSE IF allowed = <<>> THEN all
    ELSE LET allow == { Lower(a) : a \in Range(allowed) } IN
         SelectSeq(all, LAMBDA m : m \in allow)

\* localStorage keys, built by concatenation as the template strings are.
StorageKeyTs(house) == << "sensor_serial:" >> \o house
StorageKeySc(house) == << "scatter_sensor_serial:" >> \o house
StorageKeyHm(house) == << "sensor_serial:" >> \o house \o << ":heatmap" >>

StorageKey(p, house) ==
    CASE p = "timeseries" -> StorageKeyTs(house)
      [] p = "scatter" -> StorageKeySc(house)
      [] p = "heatmap" -> StorageKeyHm(house)

\* ------------------------------------------------------------------ state
VARIABLES
    tab,        \* Dashboard.tab: "sensors" | "charts"; the panels exist in "charts"
    inst,       \* number of the panel instances mounted last
    ts,         \* ChartsPanel state
    sc,         \* ScatterPanel state
    hm,         \* RiskHeatmapPanel state
    net,        \* requests in flight
    storage,    \* localStorage
    defunct,    \* last state setter called on a torn-down panel instance
    rep,        \* Dashboard report action
    loads,      \* chart requests issued so far
    latest,     \* per panel, the number of the chart request it issued last
    edits,      \* control changes made so far
    faults,     \* requests that failed so far
    fin,        \* argument of the function applied (function specifications)
    fout,       \* its result
    hid,        \* Dashboard.hid: the household of the route
    moves       \* changes of the route's household so far

vars == << tab, inst, ts, sc, hm, net, storage, defunct, rep, loads, latest, edits,
           faults, fin, fout, hid, moves >>

TsInit ==
    [ allMetrics |-> <<>>, metric |-> "", serials |-> <<>>, serial |-> "",
      interval |-> "5m", agg |-> "avg", range |-> "24h",
      tsLoading |-> FALSE, tsError |-> Null, tsData |-> NoData ]

ScInit ==
    [ metrics |-> <<>>, serials |-> <<>>, serial |-> "",
      xMetric |-> "", yMetric |-> "", range |-> "24h", interval |-> "5m",
      state |-> "idle", error |-> Null, data |-> NoData ]

HmInit ==
    [ serials |-> <<>>, serial |-> "", interval |-> "1h", agg |-> "avg", range |-> "24h",
      allMetrics |-> <<>>, selectedMetrics |-> <<>>,
      loading |-> FALSE, error |-> Null, data |-> NoData ]

NoDefunct == [ panel |-> "none", kind |-> "none" ]

RepInit ==
    [ reportDownloading |-> FALSE,
      pc |-> "idle",            \* position of handleDownloadReport
      sections |-> <<>>,        \* the handler's local sections array
      running |-> {},           \* panels whose getReportSection is called, not yet awaited
      asked |-> {},             \* panels whose getReportSection has been awaited
      threw |-> {},             \* panels whose getReportSection threw
      noContext |-> FALSE,      \* canvas.getContext('2d') answered null
      alert |-> Null,           \* the window.alert being shown
      exported |-> NoData ]     \* the report handed to downloadChartsReport

Init ==
    /\ tab = "sensors"
    /\ inst = 0
    /\ ts = TsInit
    /\ sc = ScInit
    /\ hm = HmInit
    /\ net = {}
    /\ storage = << >>
    /\ defunct = NoDefunct
    /\ rep = RepInit
    /\ loads = 0
    /\ latest = [ p \in Panels |-> 0 ]
    /\ edits = 0
    /\ faults = 0
    /\ fin = NoData
    /\ fout = NoData
    /\ hid = HouseId
    /\ moves = 0

\* No handler is interrupted: the report action's awaits resume in microtasks,
\* before any other event or response is dispatched.
Idle == rep.pc = "idle"

Live(r) == tab = "charts" /\ r.inst = inst

Fetch(p, kind) ==
    [ panel |-> p, kind |-> kind, inst |-> inst + 1, alive |-> TRUE, house |-> hid ]

\* Dashboard: setTab('charts') mounts the three panels; their mount effects
\* issue the metric-catalog and the sensor-list fetch of each panel.
OpenCharts ==
    /\ Idle
    /\ tab = "sensors"
    /\ inst < MaxMounts
    /\ tab' = "charts"
    /\ inst' = inst + 1
    /\ ts' = TsInit
    /\ sc' = ScInit
    /\ hm' = HmInit
    /\ net' = net \cup { Fetch(p, k) : p \in Panels, k \in {"metrics", "sensors"} }
    /\ UNCHANGED << storage, defunct, rep, loads, edits, faults, fin, fout, hid, moves >>
    /\ latest' = [ p \in Panels |-> 0 ]

\* The cleanup of the metric-catalog effect: alive = false.  The sensor-list
\* effect returns no cleanup.
Cleanup(r) ==
    IF r.kind = "metrics" THEN [ r EXCEPT !.alive = FALSE ] ELSE r

\* Dashboard: setTab('sensors') unmounts the three panels.
CloseCharts ==
    /\ Idle
    /\ tab = "charts"
    /\ tab' = "sensors"
    /\ ts' = TsInit
    /\ sc' = ScInit
    /\ hm' = HmInit
    /\ net' = { Cleanup(r) : r \in net }
    /\ UNCHANGED << inst, storage, defunct, rep, loads, latest, edits, faults, fin, fout, hid, moves >>

\* ------------------------------------------------- supporting-data fetches
\* ChartsPanel: setAllMetrics(all), then the effect on filteredMetrics.
TsWithMetrics(s, all) ==
    LET f == FilteredMetrics(all, AllowedMetrics) IN
    [ s EXCEPT !.allMetrics = all,
               !.metric = IF f = <<>> THEN ""
                          ELSE IF s.metric = "" \/ ~Includes(f, s.metric) THEN f[1]
                          ELSE s.metric ]

\* ScatterPanel: setMetrics(all), then the effect on filteredMetrics.
ScWithMetrics(s, all) ==
    LET f == FilteredMetrics(all, AllowedMetrics) IN
    [ s EXCEPT !.metrics = all,
               !.xMetric = IF f = <<>> THEN ""
                           ELSE IF s.xMetric = "" \/ ~Includes(f, s.xMetric) THEN f[1]
                           ELSE s.xMetric,
               !.yMetric = IF f = <<>> THEN ""
                           ELSE IF s.yMetric = "" \/ ~Includes(f, s.yMetric)
                                THEN (IF Len(f) >= 2 THEN f[2] ELSE f[1])
                           ELSE s.yMetric ]

\* RiskHeatmapPanel: setAllMetrics(all), then the effect on filteredMetrics.
HmWithMetrics(s, all) ==
    LET f == FilteredMetricsHm(all, AllowedMetrics)
        kept == SelectSeq(s.selectedMetrics, LAMBDA m : Includes(f, m))
    IN [ s EXCEPT !.allMetrics = all,
                  !.selectedMetrics = IF kept # <<>> THEN kept ELSE f ]

\* setSerials(list); setSerial(initial)
WithSerials(s, list, initial) == [ s EXCEPT !.serials = list, !.serial = initial ]

SetMetricsOf(p, all) ==
    /\ ts' = IF p = "timeseries" THEN TsWithMetrics(ts, all) ELSE ts
    /\ sc' = IF p = "scatter" THEN ScWithMetrics(sc, all) ELSE sc
    /\ hm' = IF p = "heatmap" THEN HmWithMetrics(hm, all) ELSE hm

SetSerialsOf(p, list, initial) ==
    /\ ts' = IF p = "timeseries" THEN WithSerials(ts, list, initial) ELSE ts
    /\ sc' = IF p = "scatter" THEN WithSerials(sc, list, initial) ELSE sc
    /\ hm' = IF p = "heatmap" THEN WithSerials(hm, list, initial) ELSE hm

\* A state setter called by the continuation of request r: it changes the
\* panel when r's instance is the mounted one, and is a call on a torn-down
\* instance otherwise.
OnDefunct(r) ==
    /\ defunct' = [ panel |-> r.panel, kind |-> r.kind ]
    /\ UNCHANGED << ts, sc, hm >>

GetItem(key) == IF key \in DOMAIN storage THEN storage[key] ELSE Null

SetItem(key, value) ==
    [ k \in DOMAIN storage \cup { key } |-> IF k = key THEN value ELSE storage[k] ]

\* .then((d) => { if (!alive) return; setAllMetrics(d.metrics || []) })
MetricsThen(r) ==
    IF ~r.alive THEN UNCHANGED << ts, sc, hm, defunct >>
    ELSE IF Live(r) THEN SetMetricsOf(r.panel, Catalog) /\ UNCHANGED defunct
    ELSE OnDefunct(r)

\* .catch(() => setAllMetrics([]))
MetricsCatch(r) ==
    IF Live(r) THEN SetMetricsOf(r.panel, <<>>) /\ UNCHANGED defunct
    ELSE OnDefunct(r)

\* .then((arr) => { ...; setSerials(uniq); ...; setSerial(initial) })
SensorsThen(r) ==
    LET uniq == UniqSerials(SensorsOf(r.house), <<>>)
        prev == GetItem(StorageKey(r.panel, r.house))
    IN IF Live(r) THEN SetSerialsOf(r.panel, uniq, InitialSerial(prev, uniq))
                       /\ UNCHANGED defunct
       ELSE OnDefunct(r)

\* .catch(() => { setSerials([]); setSerial('') })
SensorsCatch(r) ==
    IF Live(r) THEN SetSerialsOf(r.panel, <<>>, "") /\ UNCHANGED defunct
    ELSE OnDefunct(r)

MetricsOk ==
    \E r \in net :
        /\ Idle
        /\ r.kind = "metrics"
        /\ MetricsThen(r)
        /\ net' = net \ { r }
        /\ UNCHANGED << tab, inst, storage, rep, loads, latest, edits, faults, fin, fout, hid, moves >>

MetricsFail ==
    \E r \in net :
        /\ Idle
        /\ faults < MaxFaults
        /\ faults' = faults + 1
        /\ r.kind = "metrics"
        /\ MetricsCatch(r)
        /\ net' = net \ { r }
        /\ UNCHANGED << tab, inst, storage, rep, loads, latest, edits, fin, fout, hid, moves >>

SensorsOk ==
    \E r \in net :
        /\ Idle
        /\ r.kind = "sensors"
        /\ SensorsThen(r)
        /\ net' = net \ { r }
        /\ UNCHANGED << tab, inst, storage, rep, loads, latest, edits, faults, fin, fout, hid, moves >>

SensorsFail ==
    \E r \in net :
        /\ Idle
        /\ faults < MaxFaults
        /\ faults' = faults + 1
        /\ r.kind = "sensors"
        /\ SensorsCatch(r)
        /\ net' = net \ { r }
        /\ UNCHANGED << tab, inst, storage, rep, loads, latest, edits, fin, fout, hid, moves >>

\* ------------------------------------------------------ chart-data loads
\* Option values of the interval / aggregate / range selects (two of each).
TsIntervals == { "5m", "1h" }
ScIntervals == { "5m", "30m" }
HmIntervals == { "1h", "6h" }
Aggs == { "avg", "max" }
Ranges == { "24h", "6h" }

\* List lengths of a response: empty or not.
Lengths == 0 .. MaxLen

\* What a 200 response can look like.  encodable: the text the chart draws
\* inside its <svg> (threshold labels, point timestamps) is well-formed UTF-16,
\* so that encodeURIComponent accepts the serialised markup.
TsShapes ==
    { [ labels |-> l, points |-> n, encodable |-> e ] :
        l \in Lengths, n \in Lengths, e \in BOOLEAN }
ScShapes == { [ points |-> n, encodable |-> e ] : n \in Lengths, e \in BOOLEAN }
HmShapes == { [ labels |-> l, rows |-> n ] : l \in Lengths, n \in Lengths }

Shapes(p) ==
    CASE p = "timeseries" ->
            { x \in TsShapes : /\ x.points \in { 0, x.labels }
                               /\ (~x.encodable => x.points > 0) }
      [] p = "scatter" -> { x \in ScShapes : ~x.encodable => x.points > 0 }
      [] p = "heatmap" -> HmShapes

\* The message of the error a failed request throws: new Error(await r.text())
\* with the body of a non-2xx answer (possibly empty), or fetch's TypeError.
FailureTexts == { "", "Failed to fetch" }

ChartReq(p, q) ==
    [ panel |-> p, kind |-> "chart", inst |-> inst, alive |-> TRUE, house |-> hid,
      id |-> loads + 1, query |-> q ]

\* The response d of request r: the rows of a heatmap are the metrics asked
\* for, or the disease's when none was named.
Response(r, shape) ==
    [ present |-> TRUE, req |-> r.id, query |-> r.query, shape |-> shape,
      rowMetrics |-> IF r.panel # "heatmap" \/ shape.rows = 0 THEN <<>>
                     ELSE IF r.query.metrics # <<>> THEN r.query.metrics
                     ELSE FilteredMetricsHm(Catalog, AllowedMetrics) ]

\* A validation that accepts everything.
NoValidation3(serial, selectedMetrics, allowedMetrics) == Null

\* loadTimeseries: if (!serial) throw ...; if (!metric) throw ...
TsValidation(serial, metric) ==
    IF serial = "" THEN "No sensor serial available"
    ELSE IF metric = "" THEN "No metric available (check disease settings)"
    ELSE Null

\* loadScatter: if (!serial) { setError(...) ... }; if (!xMetric || !yMetric) { ... }
ScValidation(serial, xMetric, yMetric) ==
    IF serial = "" THEN "No sensor serial available"
    ELSE IF xMetric = "" \/ yMetric = "" THEN "No metrics available (check disease settings)"
    ELSE Null

\* loadHeatmap: if (!serial) throw ...; if (!selectedMetrics.length &&
\* (!allowedMetrics || allowedMetrics.length === 0)) throw ...
HmValidation(serial, selectedMetrics, allowedMetrics) ==
    IF serial = "" THEN "No sensor serial available"
    ELSE IF selectedMetrics = <<>> /\ allowedMetrics = <<>>
         THEN "Please select at least one metric"
    ELSE Null

\* A load button that is not disabled while a request is pending.
LoadEnabledWhileLoading ==
    /\ ts.serial # ""
    /\ ts.metric # ""
    /\ FilteredMetrics(ts.allMetrics, AllowedMetrics) # <<>>

\* ChartsPanel: the load button's disabled attribute.
LoadEnabledTs ==
    /\ ts.serial # ""
    /\ ts.metric # ""
    /\ ~ts.tsLoading
    /\ FilteredMetrics(ts.allMetrics, AllowedMetrics) # <<>>

TsQuery ==
    [ serial_number |-> ts.serial, metric |-> ts.metric, interval |-> ts.interval,
      agg |-> ts.agg, range |-> ts.range ]

\* ChartsPanel.loadTimeseries up to its fetch.
LoadTimeseries ==
    /\ Idle
    /\ tab = "charts"
    /\ LoadEnabledTs
    /\ loads < MaxLoads
    /\ IF TsValidation(ts.serial, ts.metric) # Null
       THEN /\ ts' = [ ts EXCEPT !.tsLoading = FALSE, !.tsData = NoData,
                                 !.tsError = TsValidation(ts.serial, ts.metric) ]
            /\ UNCHANGED << net, loads, latest >>
       ELSE /\ ts' = [ ts EXCEPT !.tsLoading = TRUE, !.tsError = Null, !.tsData = NoData ]
            /\ net' = net \cup { ChartReq("timeseries", TsQuery) }
            /\ loads' = loads + 1
            /\ latest' = [ latest EXCEPT !["timeseries"] = loads + 1 ]
    /\ UNCHANGED << tab, inst, sc, hm, storage, defunct, rep, edits, faults, fin, fout, hid, moves >>

\* ScatterPanel: the load button's disabled attribute.
LoadEnabledSc ==
    /\ sc.state # "loading"
    /\ FilteredMetrics(sc.metrics, AllowedMetrics) # <<>>

ScQuery ==
    [ serial_number |-> sc.serial, x_metric |-> sc.xMetric, y_metric |-> sc.yMetric,
      interval |-> sc.interval, agg |-> "avg", range |-> sc.range ]

\* ScatterPanel.loadScatter up to its fetch.
LoadScatter ==
    /\ Idle
    /\ tab = "charts"
    /\ LoadEnabledSc
    /\ loads < MaxLoads
    /\ IF ScValidation(sc.serial, sc.xMetric, sc.yMetric) # Null
       THEN /\ sc' = [ sc EXCEPT !.state = "error",
                                 !.error = ScValidation(sc.serial, sc.xMetric, sc.yMetric) ]
            /\ UNCHANGED << net, loads, latest >>
       ELSE /\ sc' = [ sc EXCEPT !.state = "loading", !.error = Null, !.data = NoData ]
            /\ net' = net \cup { ChartReq("scatter", ScQuery) }
            /\ loads' = loads + 1
            /\ latest' = [ latest EXCEPT !["scatter"] = loads + 1 ]
    /\ UNCHANGED << tab, inst, ts, hm, storage, defunct, rep, edits, faults, fin, fout, hid, moves >>

\* RiskHeatmapPanel: the load button's disabled attribute.
LoadEnabledHm ==
    /\ hm.serial # ""
    /\ ~hm.loading
    /\ FilteredMetricsHm(hm.allMetrics, AllowedMetrics) # <<>>
    /\ ~(hm.selectedMetrics = <<>> /\ AllowedMetrics = <<>>)

\* payload.metrics is set only when some metric is selected.
HmQuery ==
    [ serial_number |-> hm.serial, interval |-> hm.interval, agg |-> hm.agg,
      range |-> hm.range, metrics |-> hm.selectedMetrics, disease_key |-> DiseaseKey ]

\* RiskHeatmapPanel.loadHeatmap up to its fetch.
LoadHeatmap ==
    /\ Idle
    /\ tab = "charts"
    /\ LoadEnabledHm
    /\ loads < MaxLoads
    /\ IF HmValidation(hm.serial, hm.selectedMetrics, AllowedMetrics) # Null
       THEN /\ hm' = [ hm EXCEPT !.loading = FALSE, !.data = NoData,
                                 !.error = HmValidation(hm.serial, hm.selectedMetrics,
                                                        AllowedMetrics) ]
            /\ UNCHANGED << net, loads, latest >>
       ELSE /\ hm' = [ hm EXCEPT !.loading = TRUE, !.error = Null, !.data = NoData ]
            /\ net' = net \cup { ChartReq("heatmap", HmQuery) }
            /\ loads' = loads + 1
            /\ latest' = [ latest EXCEPT !["heatmap"] = loads + 1 ]
    /\ UNCHANGED << tab, inst, ts, sc, storage, defunct, rep, edits, faults, fin, fout, hid, moves >>

\* setTsData(d); finally setTsLoading(false)
TsLoaded(s, d) == [ s EXCEPT !.tsData = d, !.tsLoading = FALSE ]
\* setData(d); setState('success')
ScLoaded(s, d) == [ s EXCEPT !.data = d, !.state = "success" ]
\* setData(resp); finally setLoading(false)
HmLoaded(s, d) == [ s EXCEPT !.data = d, !.loading = FALSE ]

\* A failure whose handler has no finally.
TsFailedNoFinally(s, text) ==
    [ s EXCEPT !.tsError = IF text # "" THEN text ELSE "Failed to load timeseries" ]

\* setTsError(e?.message || 'Failed to load timeseries'); finally setTsLoading(false)
TsFailed(s, text) ==
    [ s EXCEPT !.tsError = IF text # "" THEN text ELSE "Failed to load timeseries",
               !.tsLoading = FALSE ]
\* setState('error'); setError(e?.message || 'Failed to load scatter data')
ScFailed(s, text) ==
    [ s EXCEPT !.state = "error",
               !.error = IF text # "" THEN text ELSE "Failed to load scatter data" ]
\* setError(e?.message || 'Failed to load heatmap'); finally setLoading(false)
HmFailed(s, text) ==
    [ s EXCEPT !.error = IF text # "" THEN text ELSE "Failed to load heatmap",
               !.loading = FALSE ]

\* The state setters of a successful load reach the panel that issued it.
ApplyLoaded(p, d) ==
    /\ ts' = IF p = "timeseries" THEN TsLoaded(ts, d) ELSE ts
    /\ sc' = IF p = "scatter" THEN ScLoaded(sc, d) ELSE sc
    /\ hm' = IF p = "heatmap" THEN HmLoaded(hm, d) ELSE hm

\* A failure that is reported to every panel.
ApplyFailedToAll(p, text) ==
    /\ ts' = TsFailed(ts, text)
    /\ sc' = ScFailed(sc, text)
    /\ hm' = HmFailed(hm, text)

\* The state setters of a failed load reach the panel that issued it.
ApplyFailed(p, text) ==
    /\ ts' = IF p = "timeseries" THEN TsFailed(ts, text) ELSE ts
    /\ sc' = IF p = "scatter" THEN ScFailed(sc, text) ELSE sc
    /\ hm' = IF p = "heatmap" THEN HmFailed(hm, text) ELSE hm

\* The continuation of a load after a 2xx answer: the data is set and the
\* serial the request was made with is remembered under the panel's key.
ChartOk ==
    \E r \in net :
        /\ Idle
        /\ r.kind = "chart"
        /\ \E shape \in Shapes(r.panel) :
              IF Live(r) THEN ApplyLoaded(r.panel, Response(r, shape)) /\ UNCHANGED defunct
              ELSE OnDefunct(r)
        /\ storage' = SetItem(StorageKey(r.panel, r.house), r.query.serial_number)
        /\ net' = net \ { r }
        /\ UNCHANGED << tab, inst, rep, loads, latest, edits, faults, fin, fout, hid, moves >>

\* The continuation of a load whose fetch rejected or answered non-2xx.
ChartFail ==
    \E r \in net :
        /\ Idle
        /\ faults < MaxFaults
        /\ faults' = faults + 1
        /\ r.kind = "chart"
        /\ \E text \in FailureTexts :
              IF Live(r) THEN ApplyFailed(r.panel, text) /\ UNCHANGED defunct
              ELSE OnDefunct(r)
        /\ net' = net \ { r }
        /\ UNCHANGED << tab, inst, storage, rep, loads, latest, edits, fin, fout, hid, moves >>

\* ------------------------------------------------------- control changes
\* The controls of ChartsPanel after one onChange of a select.
TsEdits ==
    { [ ts EXCEPT !.serial = v ] : v \in Range(ts.serials) }
    \cup { [ ts EXCEPT !.metric = v ] : v \in Range(FilteredMetrics(ts.allMetrics, AllowedMetrics)) }
    \cup { [ ts EXCEPT !.interval = v ] : v \in TsIntervals }
    \cup { [ ts EXCEPT !.agg = v ] : v \in Aggs }
    \cup { [ ts EXCEPT !.range = v ] : v \in Ranges }

\* The controls of ScatterPanel after one onChange of a select.
ScEdits ==
    { [ sc EXCEPT !.serial = v ] : v \in Range(sc.serials) }
    \cup { [ sc EXCEPT !.xMetric = v ] : v \in Range(FilteredMetrics(sc.metrics, AllowedMetrics)) }
    \cup { [ sc EXCEPT !.yMetric = v ] : v \in Range(FilteredMetrics(sc.metrics, AllowedMetrics)) }
    \cup { [ sc EXCEPT !.interval = v ] : v \in ScIntervals }
    \cup { [ sc EXCEPT !.range = v ] : v \in Ranges }

\* handleMetricToggle(metric, checked)
MetricToggle(prev, metric, checked) ==
    IF checked THEN (IF Includes(prev, metric) THEN prev ELSE Append(prev, metric))
    ELSE SelectSeq(prev, LAMBDA m : m # metric)

\* The controls of RiskHeatmapPanel after one onChange of a select or of a
\* metric checkbox, or one click of "Select all" / "Clear all".
HmEdits ==
    LET f == FilteredMetricsHm(hm.allMetrics, AllowedMetrics) IN
    { [ hm EXCEPT !.serial = v ] : v \in Range(hm.serials) }
    \cup { [ hm EXCEPT !.interval = v ] : v \in HmIntervals }
    \cup { [ hm EXCEPT !.agg = v ] : v \in Aggs }
    \cup { [ hm EXCEPT !.range = v ] : v \in Ranges }
    \cup { [ hm EXCEPT !.selectedMetrics =
                MetricToggle(hm.selectedMetrics, m, ~Includes(hm.selectedMetrics, m)) ] :
           m \in Range(f) }
    \cup { [ hm EXCEPT !.selectedMetrics = f ], [ hm EXCEPT !.selectedMetrics = <<>> ] }

EditTimeseries ==
    /\ Idle
    /\ tab = "charts"
    /\ edits < MaxEdits
    /\ \E n \in TsEdits : n # ts /\ ts' = n
    /\ edits' = edits + 1
    /\ UNCHANGED << tab, inst, sc, hm, net, storage, defunct, rep, loads, latest, faults, fin, fout, hid, moves >>

EditScatter ==
    /\ Idle
    /\ tab = "charts"
    /\ edits < MaxEdits
    /\ \E n \in ScEdits : n # sc /\ sc' = n
    /\ edits' = edits + 1
    /\ UNCHANGED << tab, inst, ts, hm, net, storage, defunct, rep, loads, latest, faults, fin, fout, hid, moves >>

EditHeatmap ==
    /\ Idle
    /\ tab = "charts"
    /\ edits < MaxEdits
    /\ \E n \in HmEdits : n # hm /\ hm' = n
    /\ edits' = edits + 1
    /\ UNCHANGED << tab, inst, ts, sc, net, storage, defunct, rep, loads, latest, faults, fin, fout, hid, moves >>

\* ------------------------------------------------------- report sections
\* A chart that draws an <svg> whatever its data.
SvgAlwaysRendered(shape) == shape.labels >= 0

\* ChartSVG draws an <svg> unless it has no labels or no data points.
ChartSvgRendered(shape) == shape.labels > 0 /\ shape.points > 0

\* ScatterPlotSVG draws an <svg> unless it has no points.
ScatterSvgRendered(shape) == shape.points > 0

\* svgToDataUrl: null without an <svg>; encodeURIComponent throws a URIError
\* on markup that is not well-formed UTF-16; a data URL otherwise.
SvgToDataUrl(svg, encodable) ==
    IF ~svg THEN "null" ELSE IF ~encodable THEN "throw" ELSE "url"

\* renderHeatmapToCanvas up to its drawing: false on an empty response or
\* without a 2D context.
RenderHeatmapToCanvas(shape, ctx) ==
    IF shape.labels = 0 \/ shape.rows = 0 THEN FALSE
    ELSE IF ~ctx THEN FALSE
    ELSE TRUE

Yield(kind, filters, d) ==
    [ status |-> "section",
      section |-> [ kind |-> kind, filters |-> filters, data |-> d ] ]

\* ChartsPanel.getReportSection.  chartContainerRef is set while {tsData && ...}
\* renders the chart container.
TsGetReportSection ==
    IF ~ts.tsData.present THEN [ status |-> "null" ]
    ELSE LET url == SvgToDataUrl(ChartSvgRendered(ts.tsData.shape), ts.tsData.shape.encodable)
         IN IF url # "url" THEN [ status |-> url ]
            ELSE Yield("timeseries",
                       [ serial |-> ts.serial, metric |-> ts.metric, interval |-> ts.interval,
                         aggregate |-> ts.agg, range |-> ts.range ],
                       ts.tsData)

\* A getReportSection whose chart container is rendered whenever data is held.
ScGetReportSectionAnyState ==
    IF ~sc.data.present THEN [ status |-> "null" ]
    ELSE LET url == SvgToDataUrl(ScatterSvgRendered(sc.data.shape), sc.data.shape.encodable)
         IN IF url # "url" THEN [ status |-> url ]
            ELSE Yield("scatter",
                       [ serial |-> sc.serial, xMetric |-> sc.xMetric, yMetric |-> sc.yMetric,
                         interval |-> sc.interval, range |-> sc.range ],
                       sc.data)

\* ScatterPanel.getReportSection.  chartContainerRef is set while
\* {state === 'success' && data && ...} renders the chart container.
ScGetReportSection ==
    IF ~sc.data.present \/ sc.state # "success" THEN [ status |-> "null" ]
    ELSE LET url == SvgToDataUrl(ScatterSvgRendered(sc.data.shape), sc.data.shape.encodable)
         IN IF url # "url" THEN [ status |-> url ]
            ELSE Yield("scatter",
                       [ serial |-> sc.serial, xMetric |-> sc.xMetric, yMetric |-> sc.yMetric,
                         interval |-> sc.interval, range |-> sc.range ],
                       sc.data)

\* RiskHeatmapPanel.getReportSection with buildHeatmapImage.  The hidden
\* <canvas> is rendered whenever the panel is.
HmGetReportSection(ctx) ==
    IF ~hm.data.present THEN [ status |-> "null" ]
    ELSE IF ~RenderHeatmapToCanvas(hm.data.shape, ctx) THEN [ status |-> "null" ]
    ELSE Yield("heatmap",
               [ serial |-> hm.serial, interval |-> hm.interval, aggregate |-> hm.agg,
                 range |-> hm.range,
                 selectedMetrics |-> IF hm.selectedMetrics # <<>> THEN hm.selectedMetrics
                                     ELSE hm.data.rowMetrics,
                 diseaseKey |-> DiseaseKey, diseaseName |-> DiseaseName ],
               hm.data)

GetReportSection(p, ctx) ==
    CASE p = "timeseries" -> TsGetReportSection
      [] p = "scatter" -> ScGetReportSection
      [] p = "heatmap" -> HmGetReportSection(ctx)

\* -------------------------------------------------------- report document
\* renderFilters: the label / value pairs of the filter summary.
RenderFilters(section) ==
    LET f == section.filters IN
    CASE section.kind = "timeseries" ->
            << <<"Sensor", f.serial>>, <<"Metric", f.metric>>, <<"Interval", f.interval>>,
               <<"Aggregate", f.aggregate>>, <<"Range", f.range>> >>
      [] section.kind = "scatter" ->
            << <<"Sensor", f.serial>>, <<"X", f.xMetric>>, <<"Y", f.yMetric>>,
               <<"Interval", f.interval>>, <<"Range", f.range>> >>
      [] OTHER ->
            << <<"Sensor", f.serial>>,
               <<"Disease", IF f.diseaseName # "" THEN f.diseaseName
                            ELSE IF f.diseaseKey # "" THEN f.diseaseKey ELSE "N/A">>,
               <<"Interval", f.interval>>, <<"Aggregate", f.aggregate>>, <<"Range", f.range>>,
               <<"Metrics", IF f.selectedMetrics # <<>> THEN f.selectedMetrics
                            ELSE <<"All metrics">> >> >>

\* sectionToHtml: one <div class="section"> block.
SectionToHtml(section) ==
    [ block |-> "section", kind |-> section.kind, filters |-> RenderFilters(section),
      raw |-> section.data ]

\* buildChartsReportHtml: report.sections.map(sectionToHtml).join('\n')
\*                        || '<p>No chart data was captured.</p>'
BuildChartsReportHtml(report) ==
    [ present |-> TRUE,
      houseId |-> IF report.houseId = <<>> THEN <<"N/A">> ELSE report.houseId,
      disease |-> IF report.disease.present
                  THEN << report.disease.name, report.disease.key >> ELSE << "N/A" >>,
      metrics |-> IF report.disease.present /\ report.disease.metrics # <<>>
                  THEN report.disease.metrics ELSE << "N/A" >>,
      body |-> IF report.sections = <<>> THEN << [ block |-> "No chart data was captured." ] >>
               ELSE [ i \in DOMAIN report.sections |-> SectionToHtml(report.sections[i]) ] ]

\* downloadChartsReport: the document is built and its download is started.
DownloadChartsReport(report) ==
    [ present |-> TRUE, report |-> report, html |-> BuildChartsReportHtml(report) ]

\* ----------------------------------------------------------- report action
\* An order that asks the scatter panel first.
ScatterFirst == << "scatter", "timeseries", "heatmap" >>

\* The order in which handleDownloadReport asks the panels.
AskOrder == << "timeseries", "scatter", "heatmap" >>

Position(p) == CHOOSE i \in DOMAIN AskOrder : AskOrder[i] = p

\* Every getReportSection called before the first await (Promise.all).
AllCalledAtOnce == Panels

\* The getReportSection calls made before the first await.
FirstCalls == { AskOrder[1] }

\* The getReportSection call made once the one of p has been awaited.
CalledAfter(p) ==
    IF Position(p) < Len(AskOrder) THEN { AskOrder[Position(p) + 1] } ELSE {}

LoadFirstAlert == "Load at least one chart before exporting the report."
FailedAlert == "Failed to export the report. Please try again later."

\* An end of the try block that hands whatever was collected to
\* downloadChartsReport.
FinishAlwaysExports(r) ==
    [ r EXCEPT !.pc = "done",
               !.exported = DownloadChartsReport(
                   [ houseId |-> hid,
                     disease |-> [ present |-> TRUE, key |-> DiseaseKey,
                                   name |-> DiseaseName, metrics |-> AllowedMetrics ],
                     sections |-> r.sections ]) ]

\* The end of the try block: nothing collected is answered with an alert,
\* anything else is handed to downloadChartsReport.
Finish(r) ==
    IF r.sections = <<>>
    THEN [ r EXCEPT !.pc = "done", !.alert = LoadFirstAlert ]
    ELSE [ r EXCEPT !.pc = "done",
                    !.exported = DownloadChartsReport(
                        [ houseId |-> hid,
                          disease |-> [ present |-> TRUE, key |-> DiseaseKey,
                                        name |-> DiseaseName, metrics |-> AllowedMetrics ],
                          sections |-> r.sections ]) ]

\* A click that starts a handler whatever reportDownloading says.
ReportClickBusy ==
    /\ tab = "charts"
    /\ rep.pc # "done"
    /\ rep' = [ RepInit EXCEPT !.reportDownloading = TRUE, !.pc = "collect",
                               !.running = FirstCalls ]
    /\ UNCHANGED << tab, inst, ts, sc, hm, net, storage, defunct, loads, latest, edits,
                    faults, fin, fout, hid, moves >>

\* The click on "Download Report" (disabled while reportDownloading), up to
\* the first await.
ReportClick ==
    /\ Idle
    /\ tab = "charts"
    /\ ~rep.reportDownloading
    /\ rep' = [ RepInit EXCEPT !.reportDownloading = TRUE, !.pc = "collect",
                               !.running = FirstCalls ]
    /\ UNCHANGED << tab, inst, ts, sc, hm, net, storage, defunct, loads, latest, edits,
                    faults, fin, fout, hid, moves >>

\* The handler resumes from the await of p's getReportSection: a rejection is
\* caught (alert, nothing exported); otherwise the section, if any, is pushed
\* and the next panel is asked, or the try block ends.
ReportResume(p) ==
    /\ rep.pc = "collect"
    /\ p \in rep.running
    /\ \A q \in rep.running : Position(p) <= Position(q)
    /\ \E ctx \in (IF p = "heatmap" THEN BOOLEAN ELSE { TRUE }) :
          LET res == GetReportSection(p, ctx)
              r1 == [ rep EXCEPT !.running = (@ \ { p }) \cup (CalledAfter(p) \ rep.asked),
                                 !.asked = @ \cup { p },
                                 !.noContext = (p = "heatmap" /\ ~ctx),
                                 !.sections = IF res.status = "section"
                                              THEN Append(@, res.section) ELSE @ ]
          IN rep' = IF res.status = "throw"
                    THEN [ rep EXCEPT !.running = {}, !.asked = @ \cup { p },
                                      !.threw = @ \cup { p }, !.pc = "done",
                                      !.alert = FailedAlert ]
                    ELSE IF r1.running = {} THEN Finish(r1)
                    ELSE r1
    /\ UNCHANGED << tab, inst, ts, sc, hm, net, storage, defunct, loads, latest, edits,
                    faults, fin, fout, hid, moves >>

\* The alert is dismissed or the download has started: finally
\* setReportDownloading(false).
ReportReturn ==
    /\ rep.pc = "done"
    /\ rep' = RepInit
    /\ UNCHANGED << tab, inst, ts, sc, hm, net, storage, defunct, loads, latest, edits,
                    faults, fin, fout, hid, moves >>

Next ==
    \/ OpenCharts \/ CloseCharts
    \/ MetricsOk \/ MetricsFail \/ SensorsOk \/ SensorsFail
    \/ LoadTimeseries \/ LoadScatter \/ LoadHeatmap
    \/ ChartOk \/ ChartFail
    \/ EditTimeseries \/ EditScatter \/ EditHeatmap
    \/ ReportClick \/ (\E p \in Panels : ReportResume(p)) \/ ReportReturn

Spec == Init /\ [][Next]_vars

\* ------------------------------------------------- a change of household
\* Dashboard takes hid from the route parameter :houseId; the panels stay
\* mounted when the route changes to another household and get the new id
\* as their houseId prop.
MaxMoves == 1      \* changes of household in one behaviour

\* The sensor-list fetch a panel's effect issues when houseId changes.  The
\* effect returns no cleanup: the fetch for the previous household goes on.
HouseFetch(p, h) ==
    [ panel |-> p, kind |-> "sensors", inst |-> inst, alive |-> TRUE, house |-> h,
      move |-> moves + 1 ]

ChangeHouse ==
    /\ Idle
    /\ moves < MaxMoves
    /\ moves' = moves + 1
    /\ \E h \in Houses \ { hid } :
          /\ hid' = h
          /\ net' = IF tab = "charts" THEN net \cup { HouseFetch(p, h) : p \in Panels }
                    ELSE net
    /\ UNCHANGED << tab, inst, ts, sc, hm, storage, defunct, rep, loads, latest, edits,
                    faults, fin, fout >>

\* The charts tab of household HouseId just opened: the metric catalog has
\* arrived, the sensor-list fetches of the three panels are in flight.
InitHouse ==
    /\ tab = "charts"
    /\ inst = 1
    /\ ts = TsWithMetrics(TsInit, Catalog)
    /\ sc = ScWithMetrics(ScInit, Catalog)
    /\ hm = HmWithMetrics(HmInit, Catalog)
    /\ net = { [ panel |-> p, kind |-> "sensors", inst |-> 1, alive |-> TRUE,
                 house |-> HouseId ] : p \in Panels }
    /\ storage = << >>
    /\ defunct = NoDefunct
    /\ rep = RepInit
    /\ loads = 0
    /\ latest = [ p \in Panels |-> 0 ]
    /\ edits = 0
    /\ faults = 0
    /\ fin = NoData
    /\ fout = NoData
    /\ hid = HouseId
    /\ moves = 0

NextHouse ==
    \/ ChangeHouse
    \/ SensorsOk \/ SensorsFail
    \/ LoadTimeseries \/ LoadScatter \/ LoadHeatmap
    \/ ChartOk \/ ChartFail
    \/ ReportClick \/ (\E p \in Panels : ReportResume(p)) \/ ReportReturn

SpecHouse == InitHouse /\ [][NextHouse]_vars

\* ------------------------------------------------ loads that are answered
\* The charts tab with the metric catalog and the sensor list of each panel
\* arrived, nothing in flight.
InitReady ==
    /\ tab = "charts"
    /\ inst = 1
    /\ ts = WithSerials(TsWithMetrics(TsInit, Catalog), UniqSerials(SensorsResp, <<>>),
                        InitialSerial(Null, UniqSerials(SensorsResp, <<>>)))
    /\ sc = WithSerials(ScWithMetrics(ScInit, Catalog), UniqSerials(SensorsResp, <<>>),
                        InitialSerial(Null, UniqSerials(SensorsResp, <<>>)))
    /\ hm = WithSerials(HmWithMetrics(HmInit, Catalog), UniqSerials(SensorsResp, <<>>),
                        InitialSerial(Null, UniqSerials(SensorsResp, <<>>)))
    /\ net = {}
    /\ storage = << >>
    /\ defunct = NoDefunct
    /\ rep = RepInit
    /\ loads = 0
    /\ latest = [ p \in Panels |-> 0 ]
    /\ edits = 0
    /\ faults = 0
    /\ fin = NoData
    /\ fout = NoData
    /\ hid = HouseId
    /\ moves = 0

NextAnswered ==
    \/ LoadTimeseries \/ LoadScatter \/ LoadHeatmap
    \/ ChartOk \/ ChartFail
    \/ EditTimeseries \/ EditScatter \/ EditHeatmap
    \/ CloseCharts

\* fetch settles: every chart request is answered, with a 2xx or a failure.
SpecAnswered ==
    InitReady /\ [][NextAnswered]_vars /\ WF_vars(ChartOk \/ ChartFail)

\* ------------------------------------------------ exports that run to their end
NextExport ==
    \/ LoadTimeseries \/ LoadScatter \/ LoadHeatmap
    \/ ChartOk \/ ChartFail
    \/ ReportClick \/ (\E p \in Panels : ReportResume(p)) \/ ReportReturn

\* The continuations of handleDownloadReport are microtasks and an alert is
\* dismissed: a started handler reaches its finally block.
SpecExport ==
    /\ InitReady /\ [][NextExport]_vars
    /\ WF_vars((\E p \in Panels : ReportResume(p)) \/ ReportReturn)

\* ------------------------------------------- the report composer on its own
\* buildChartsReportHtml is exported and pure: it is applied here to reports
\* of every shape, the empty section list included.
SampleFilters(kind) ==
    CASE kind = "timeseries" ->
            [ serial |-> "S1", metric |-> "co2", interval |-> "5m", aggregate |-> "avg",
              range |-> "24h" ]
      [] kind = "scatter" ->
            [ serial |-> "S1", xMetric |-> "co2", yMetric |-> "temp", interval |-> "5m",
              range |-> "24h" ]
      [] OTHER ->
            [ serial |-> "S1", interval |-> "1h", aggregate |-> "avg", range |-> "24h",
              selectedMetrics |-> << "co2" >>, diseaseKey |-> DiseaseKey,
              diseaseName |-> DiseaseName ]

SampleSection(kind) ==
    [ kind |-> kind, filters |-> SampleFilters(kind), data |-> NoData ]

SectionLists ==
    UNION { [ 1 .. n -> { SampleSection(k) : k \in Panels } ] : n \in 0 .. MaxSections }

Diseases ==
    { [ present |-> FALSE ],
      [ present |-> TRUE, key |-> DiseaseKey, name |-> DiseaseName, metrics |-> AllowedMetrics ] }

Reports ==
    { [ present |-> TRUE, houseId |-> h, disease |-> d, sections |-> ss ] :
        h \in { <<>>, HouseId }, d \in Diseases, ss \in SectionLists }

InitReport ==
    /\ tab = "sensors"
    /\ inst = 0
    /\ ts = TsInit
    /\ sc = ScInit
    /\ hm = HmInit
    /\ net = {}
    /\ storage = <<>>
    /\ defunct = NoDefunct
    /\ rep = RepInit
    /\ loads = 0
    /\ latest = [ p \in Panels |-> 0 ]
    /\ edits = 0
    /\ faults = 0
    /\ fin \in Reports
    /\ fout = NoData
    /\ hid = HouseId
    /\ moves = 0

BuildReport ==
    /\ fin.present
    /\ ~fout.present
    /\ fout' = BuildChartsReportHtml(fin)
    /\ UNCHANGED << tab, inst, ts, sc, hm, net, storage, defunct, rep, loads, latest, edits,
                    faults, fin, hid, moves >>

NextReport == BuildReport

SpecReport == InitReport /\ [][NextReport]_vars

\* ----------------------------------------------- functions on their own
\* The specifications below apply one function of the program to inputs drawn
\* in the initial state (fin) and record its result (fout); the dashboard is
\* left as constructed.
Parked ==
    /\ tab = "sensors"
    /\ inst = 0
    /\ ts = TsInit
    /\ sc = ScInit
    /\ hm = HmInit
    /\ net = {}
    /\ storage = <<>>
    /\ defunct = NoDefunct
    /\ rep = RepInit
    /\ loads = 0
    /\ latest = [ p \in Panels |-> 0 ]
    /\ edits = 0
    /\ faults = 0
    /\ hid = HouseId
    /\ moves = 0

Apply(result) ==
    /\ fin.present
    /\ ~fout.present
    /\ fout' = result
    /\ UNCHANGED << tab, inst, ts, sc, hm, net, storage, defunct, rep, loads, latest, edits,
                    faults, fin, hid, moves >>

\* ------------------------------------------------- the load handlers' checks
\* The controls a load handler can be called with.
SerialInputs == { "", "S1", "S2" }
MetricInputs == { "", "co2", "temp" }
SelectionInputs == { <<>>, << "co2" >>, << "co2", "temp" >> }
AllowedInputs == { <<>>, AllowedMetrics }

LoadInputs ==
    { [ present |-> TRUE, panel |-> "timeseries", serial |-> s, metric |-> m ] :
        s \in SerialInputs, m \in MetricInputs }
    \cup { [ present |-> TRUE, panel |-> "scatter", serial |-> s, xMetric |-> x, yMetric |-> y ] :
             s \in SerialInputs, x \in MetricInputs, y \in MetricInputs }
    \cup { [ present |-> TRUE, panel |-> "heatmap", serial |-> s, selectedMetrics |-> sel,
               allowedMetrics |-> al ] :
             s \in SerialInputs, sel \in SelectionInputs, al \in AllowedInputs }

\* What a load handler does with its controls: the error it sets and whether
\* it reaches its fetch.
LoadOutcome(in) ==
    LET v == CASE in.panel = "timeseries" -> TsValidation(in.serial, in.metric)
               [] in.panel = "scatter" -> ScValidation(in.serial, in.xMetric, in.yMetric)
               [] in.panel = "heatmap" ->
                    HmValidation(in.serial, in.selectedMetrics, in.allowedMetrics)
    IN [ present |-> TRUE, error |-> v, fetched |-> (v = Null) ]

InitLoad == Parked /\ fin \in LoadInputs /\ fout = NoData

CallLoad == Apply(LoadOutcome(fin))

NextLoad == CallLoad

SpecLoad == InitLoad /\ [][NextLoad]_vars

\* ------------------------------------------------------ heatmap cells
\* Numbers are carried as numerators over RiskDen: Num(5) is 0.5.
RiskDen == 10
MaxRisk == 12      \* largest risk numerator tried (above 1)
RiskBelow == 2     \* risk numerators tried down to -RiskBelow

Num(n) == [ kind |-> "num", n |-> n ]
JsNull == [ kind |-> "null" ]
JsUndefined == [ kind |-> "undefined" ]
JsNaN == [ kind |-> "NaN" ]

\* x == null
IsNullish(x) == x.kind \in { "null", "undefined" }

DISABLED_COLOR == [ css |-> "#c4b5fd" ]
NO_SENSOR_COLOR == [ css |-> "#d1d5db" ]
NO_DATA_COLOR == [ css |-> "#f3f4f6" ]

\* A clamp that lets every number through.
ClampNothing(risk) == IF IsNullish(risk) \/ risk.kind = "NaN" THEN JsNull ELSE risk

clampRisk(risk) ==
    IF IsNullish(risk) \/ risk.kind = "NaN" THEN JsNull
    ELSE IF risk.n < 0 THEN Num(0)
    ELSE IF risk.n > RiskDen THEN Num(RiskDen)
    ELSE risk

\* A hue that does not depend on the risk.
ColorWithoutHue(risk) ==
    [ hue |-> 120 * RiskDen, sat |-> 85, light |-> 65 * RiskDen - risk.n * 20 ]

\* hsl(hue, 85%, lightness%), hue and lightness as numerators over RiskDen.
colorForRisk(risk) ==
    [ hue |-> 120 * RiskDen - risk.n * 120, sat |-> 85,
      light |-> 65 * RiskDen - risk.n * 20 ]

\* A cell loop that looks at enabled before has_sensor.
CanvasCellDisabledFirst(cell) ==
    IF ~cell.enabled THEN [ status |-> "disabled", fill |-> DISABLED_COLOR, text |-> JsNull ]
    ELSE IF ~cell.has_sensor
         THEN [ status |-> "no sensor", fill |-> NO_SENSOR_COLOR, text |-> JsNull ]
    ELSE [ status |-> "no data", fill |-> NO_DATA_COLOR, text |-> JsNull ]

\* renderHeatmapToCanvas, the cell loop: fill and text of one cell.
CanvasCell(cell) ==
    LET value == cell.value
        risk == clampRisk(cell.risk)
    IN IF ~cell.has_sensor
       THEN [ status |-> "no sensor", fill |-> NO_SENSOR_COLOR, text |-> JsNull ]
       ELSE IF ~cell.enabled
       THEN [ status |-> "disabled", fill |-> DISABLED_COLOR, text |-> JsNull ]
       ELSE IF IsNullish(value) \/ IsNullish(risk)
       THEN [ status |-> "no data", fill |-> NO_DATA_COLOR, text |-> JsNull ]
       ELSE [ status |-> "risk", fill |-> colorForRisk(risk),
              text |-> [ kind |-> "toFixed(1)", n |-> value.n ] ]

\* An on-screen cell that colours by the unclamped risk.
RenderCellUnclamped(cell) ==
    IF ~cell.has_sensor THEN [ status |-> "no sensor", fill |-> NO_SENSOR_COLOR ]
    ELSE IF ~cell.enabled THEN [ status |-> "disabled", fill |-> DISABLED_COLOR ]
    ELSE IF IsNullish(cell.value) \/ IsNullish(ClampNothing(cell.risk))
    THEN [ status |-> "no data", fill |-> NO_DATA_COLOR ]
    ELSE [ status |-> "risk", fill |-> colorForRisk(cell.risk) ]

\* RiskHeatmapPanel.renderCell: the status and backgroundColor of one cell.
RenderCell(cell) ==
    LET rawRisk == clampRisk(cell.risk)
        value == cell.value
    IN IF ~cell.has_sensor THEN [ status |-> "no sensor", fill |-> NO_SENSOR_COLOR ]
       ELSE IF ~cell.enabled THEN [ status |-> "disabled", fill |-> DISABLED_COLOR ]
       ELSE IF IsNullish(value) \/ IsNullish(rawRisk)
       THEN [ status |-> "no data", fill |-> NO_DATA_COLOR ]
       ELSE [ status |-> "risk", fill |-> colorForRisk(rawRisk) ]

\* row.values[col] and row.risk[col] of a response.
ValueInputs == { JsNull, JsUndefined, Num(0), Num(215) }
RiskInputs == { JsNull, JsUndefined, JsNaN } \cup { Num(n) : n \in -RiskBelow .. MaxRisk }

CellInputs ==
    { [ present |-> TRUE, has_sensor |-> h, enabled |-> e, value |-> v, risk |-> r ] :
        h \in BOOLEAN, e \in BOOLEAN, v \in ValueInputs, r \in RiskInputs }

InitCell == Parked /\ fin \in CellInputs /\ fout = NoData

\* The same cell drawn for the export and shown on screen.
DrawCell ==
    Apply([ present |-> TRUE, canvas |-> CanvasCell(fin), screen |-> RenderCell(fin),
            clamped |-> clampRisk(fin.risk) ])

NextCell == DrawCell

SpecCell == InitCell /\ [][NextCell]_vars

\* ------------------------------------------------------ heatmap time ticks
maxXTicks == 12
MaxCols == 60      \* most columns (labels) of a heatmap response tried

CeilDiv(a, b) == (a + b - 1) \div b

\* Math.max(1, Math.ceil(cols / maxXTicks))
TickEvery(cols) == IF CeilDiv(cols, maxXTicks) < 1 THEN 1 ELSE CeilDiv(cols, maxXTicks)

\* A renderer that draws the stride ticks only.
NoForcedTick(cols, drawn) == {}

\* if (!drawnTicks.has(cols - 1)) { ... draw the tick of cols - 1 ... }
ForcedTick(cols, drawn) == IF (cols - 1) \in drawn THEN {} ELSE { cols - 1 }

\* renderHeatmapToCanvas, the x ticks: the columns labelled by the stride loop
\* and the column labelled after it.
HeatmapTicks(cols) ==
    LET drawnTicks == { col \in 0 .. (cols - 1) : col % TickEvery(cols) = 0 }
    IN [ present |-> TRUE, stride |-> drawnTicks, forced |-> ForcedTick(cols, drawnTicks) ]

InitTicks == Parked /\ fin \in { [ present |-> TRUE, cols |-> n ] : n \in 1 .. MaxCols } /\ fout = NoData

DrawTicks == Apply(HeatmapTicks(fin.cols))

NextTicks == DrawTicks

SpecTicks == InitTicks /\ [][NextTicks]_vars

\* ------------------------------------------------- time-series time ticks
timeTicks == 6
MaxLabels == 60    \* most labels of a time-series response tried

\* Math.round(a / b) for a >= 0, b > 0
RoundDiv(a, b) == (2 * a + b) \div (2 * b)

\* Tick indices taken by rounding down i * N / k.
FloorTickIdx(n) ==
    LET effectiveTicks == IF timeTicks < n THEN timeTicks ELSE n
    IN [ j \in 1 .. effectiveTicks |-> ((j - 1) * n) \div effectiveTicks ]

\* rawTickIdx of ChartSVG for n labels (element j is the tick of i = j - 1).
RawTickIdx(n) ==
    LET effectiveTicks == IF timeTicks < n THEN timeTicks ELSE n
    IN [ j \in 1 .. effectiveTicks |->
           IF effectiveTicks <= 1 THEN 0
           ELSE IF j - 1 = effectiveTicks - 1 THEN n - 1
           ELSE RoundDiv((j - 1) * (n - 1), effectiveTicks - 1) ]

\* rawTickIdx.filter((idx, i) => rawTickIdx.indexOf(idx) === i)
RECURSIVE FirstOccurrences(_, _)
FirstOccurrences(raw, acc) ==
    IF raw = <<>> THEN acc
    ELSE FirstOccurrences(Tail(raw),
                          IF Includes(acc, Head(raw)) THEN acc ELSE Append(acc, Head(raw)))

XTickIdx(n) == FirstOccurrences(RawTickIdx(n), <<>>)

InitTimeTicks ==
    Parked /\ fin \in { [ present |-> TRUE, labels |-> n ] : n \in 1 .. MaxLabels } /\ fout = NoData

DrawTimeTicks == Apply([ present |-> TRUE, xTickIdx |-> XTickIdx(fin.labels) ])

NextTimeTicks == DrawTimeTicks

SpecTimeTicks == InitTimeTicks /\ [][NextTimeTicks]_vars

\* ------------------------------------------------------------- scales
MaxPoints == 2       \* most data values / points of a response tried
MaxThresholds == 2   \* most thresholds of a time-series response tried

ChartHeight == 320
ChartPadding == [ left |-> 56, right |-> 16, top |-> 32, bottom |-> 40 ]

SeqsOf(S, lo, hi) == UNION { [ 1 .. n -> S ] : n \in lo .. hi }

MinOf(S) == CHOOSE x \in S : \A y \in S : x <= y
MaxOf(S) == CHOOSE x \in S : \A y \in S : x >= y
Abs(x) == IF x < 0 THEN -x ELSE x

\* A domain taken from the data alone.
DataValuesOnly(data, thresholds) == Range(data)

\* ...data, ...(thrVals.length ? thrVals : [Infinity])
ChartValues(data, thresholds) == Range(data) \cup Range(thresholds)

\* A domain that is not widened when it is a single value.
YDomainAsIs(minY, maxY) == [ y0 |-> minY, y1 |-> maxY ]

\* y0 = minY === maxY ? minY - 1 : minY;  y1 = minY === maxY ? maxY + 1 : maxY
YDomain(minY, maxY) ==
    [ y0 |-> IF minY = maxY THEN minY - 1 ELSE minY,
      y1 |-> IF minY = maxY THEN maxY + 1 ELSE maxY ]

\* yscale(v) of ChartSVG as a numerator over y1 - y0.
YScaleNum(v, y0, y1) ==
    ChartPadding.top * (y1 - y0)
    + (y1 - v) * (ChartHeight - ChartPadding.top - ChartPadding.bottom)

\* ChartSVG: domain and divisors of the scales.
ChartScales(data, thresholds) ==
    LET vals == ChartValues(data, thresholds)
        d == YDomain(MinOf(vals), MaxOf(vals))
    IN [ present |-> TRUE, chart |-> "timeseries", y0 |-> d.y0, y1 |-> d.y1,
         xDiv |-> IF Len(data) - 1 < 1 THEN 1 ELSE Len(data) - 1,
         yDiv |-> d.y1 - d.y0 ]

\* padRange of ScatterPlotSVG for finite min and max, both ends as numerators
\* over 20 (0.1 is 2/20, 0.05 is 1/20).
PadRange(min, max) ==
    IF min = max
    THEN LET delta == Abs(IF min = 0 THEN 1 ELSE min)
         IN [ lo |-> 20 * min - 2 * delta, hi |-> 20 * max + 2 * delta ]
    ELSE LET span == max - min
         IN [ lo |-> 20 * min - span, hi |-> 20 * max + span ]

\* ScatterPlotSVG: the padded domains of both axes.
ScatterScales(points, xThresholds, yThresholds) ==
    LET allX == { points[i][1] : i \in DOMAIN points } \cup Range(xThresholds)
        allY == { points[i][2] : i \in DOMAIN points } \cup Range(yThresholds)
    IN [ present |-> TRUE, chart |-> "scatter",
         minX |-> MinOf(allX), maxX |-> MaxOf(allX),
         minY |-> MinOf(allY), maxY |-> MaxOf(allY),
         x |-> PadRange(MinOf(allX), MaxOf(allX)),
         y |-> PadRange(MinOf(allY), MaxOf(allY)) ]

\* Values of data points and thresholds.
ScaleValues == { -2, 0, 3 }

ScaleInputs ==
    { [ present |-> TRUE, chart |-> "timeseries", data |-> d, thresholds |-> t ] :
        d \in SeqsOf(ScaleValues, 1, MaxPoints), t \in SeqsOf(ScaleValues, 0, MaxThresholds) }
    \cup { [ present |-> TRUE, chart |-> "scatter", points |-> ps, xThresholds |-> tx,
             yThresholds |-> ty ] :
             ps \in SeqsOf(ScaleValues \X ScaleValues, 1, MaxPoints),
             tx \in SeqsOf(ScaleValues, 0, 1), ty \in SeqsOf(ScaleValues, 0, 1) }

InitScale == Parked /\ fin \in ScaleInputs /\ fout = NoData

ScaleChart ==
    /\ fin.present /\ fin.chart = "timeseries"
    /\ Apply(ChartScales(fin.data, fin.thresholds))

ScaleScatter ==
    /\ fin.present /\ fin.chart = "scatter"
    /\ Apply(ScatterScales(fin.points, fin.xThresholds, fin.yThresholds))

NextScale == ScaleChart \/ ScaleScatter

SpecScale == InitScale /\ [][NextScale]_vars

\* ------------------------------------------------------ the timestamp normalizer
\* Strings are sequences of one-character strings, so that trimming, the
\* pattern and the formatting act on characters.
MaxPad == 2

WhiteSpace == { " ", "\t" }
DigitChars == << "0", "1", "2", "3", "4", "5", "6", "7", "8", "9" >>
IsDigit(c) == c \in Range(DigitChars)
DigitVal(c) == CHOOSE d \in 0 .. 9 : DigitChars[d + 1] = c

Str(chars) == [ kind |-> "str", chars |-> chars ]
Throws == [ kind |-> "throws" ]

RECURSIVE TrimStart(_)
TrimStart(s) ==
    IF s # <<>> /\ Head(s) \in WhiteSpace THEN TrimStart(Tail(s)) ELSE s

RECURSIVE TrimEnd(_)
TrimEnd(s) ==
    IF s # <<>> /\ s[Len(s)] \in WhiteSpace THEN TrimEnd(SubSeq(s, 1, Len(s) - 1)) ELSE s

\* A trim that leaves the end of the string alone.
TrimStartOnly(s) == TrimStart(s)

\* String.prototype.trim.
Trim(s) == TrimEnd(TrimStart(s))

\* raw.trim(): a TypeError on null and undefined.
TrimCall(raw) == IF IsNullish(raw) THEN Throws ELSE Str(Trim(raw.chars))

\* !raw
Falsy(raw) == IsNullish(raw) \/ raw.chars = <<>>

\* Number.parseInt(digits, 10)
RECURSIVE ParseInt(_)
ParseInt(s) ==
    IF s = <<>> THEN 0
    ELSE ParseInt(SubSeq(s, 1, Len(s) - 1)) * 10 + DigitVal(s[Len(s)])

\* value.toString() of a whole number
RECURSIVE Digits(_)
Digits(n) ==
    IF n < 0 THEN << "-" >> \o Digits(-n)
    ELSE IF n < 10 THEN << DigitChars[n + 1] >>
    ELSE Digits(n \div 10) \o << DigitChars[(n % 10) + 1] >>

pad(value) == IF Len(Digits(value)) < 2 THEN << "0" >> \o Digits(value) ELSE Digits(value)

DigitsAt(t, I) == \A i \in I : IsDigit(t[i])

RECURSIVE DigitRun(_, _)
DigitRun(t, i) == IF i <= Len(t) /\ IsDigit(t[i]) THEN 1 + DigitRun(t, i + 1) ELSE 0

NoMatch == [ matched |-> FALSE ]

\* An offset that forgets its sign.
OffsetUnsigned(signSymbol, offHourStr, offMinStr) ==
    [ ok |-> TRUE,
      offsetMinutes |-> Num(ParseInt(offHourStr) * 60 + ParseInt(offMinStr)) ]

OffsetOf(signSymbol, offHourStr, offMinStr) ==
    LET sign == IF signSymbol = "-" THEN -1 ELSE 1
    IN [ ok |-> TRUE,
         offsetMinutes |-> Num(sign * (ParseInt(offHourStr) * 60 + ParseInt(offMinStr))) ]

\* (Z|z|([+-])(\d{2}):?(\d{2})) and the offset the code takes from it.
ZoneOf(z) ==
    IF z \in { << "Z" >>, << "z" >> } THEN [ ok |-> TRUE, offsetMinutes |-> Num(0) ]
    ELSE IF /\ Len(z) = 6 /\ z[1] \in { "+", "-" } /\ z[4] = ":"
            /\ DigitsAt(z, { 2, 3, 5, 6 })
         THEN OffsetOf(z[1], << z[2], z[3] >>, << z[5], z[6] >>)
    ELSE IF Len(z) = 5 /\ z[1] \in { "+", "-" } /\ DigitsAt(z, 2 .. 5)
         THEN OffsetOf(z[1], << z[2], z[3] >>, << z[4], z[5] >>)
    ELSE [ ok |-> FALSE ]

\* ISOishRegex up to the minutes: \d{4}-\d{2}-\d{2}[ T]\d{2}:\d{2}
HeadOk(t) ==
    /\ Len(t) >= 16
    /\ DigitsAt(t, { 1, 2, 3, 4, 6, 7, 9, 10, 12, 13, 15, 16 })
    /\ t[5] = "-" /\ t[8] = "-" /\ t[11] \in { " ", "T" } /\ t[14] = ":"

\* (?::(\d{2}) ... )? takes part in the match
HasSec(t) == Len(t) >= 19 /\ t[17] = ":" /\ IsDigit(t[18]) /\ IsDigit(t[19])

\* The number of digits (?:[.,](\d+))? matches, 0 when it takes no part.
FracLen(t) ==
    IF HasSec(t) /\ Len(t) >= 21 /\ t[20] \in { ".", "," } /\ IsDigit(t[21])
    THEN DigitRun(t, 21)
    ELSE 0

\* Number.parseInt(fraction.padEnd(3, '0'), 10) for fractionStr
Millisecond(fractionStr) ==
    IF fractionStr = <<>> THEN 0
    ELSE IF Len(fractionStr) = 1 THEN ParseInt(fractionStr) * 100
    ELSE IF Len(fractionStr) = 2 THEN ParseInt(fractionStr) * 10
    ELSE ParseInt(SubSeq(fractionStr, 1, 3))

\* The numbers the code parses from the groups of a match.
MatchFields(t, hasSec, fracLen, offsetMinutes) ==
    [ matched |-> TRUE,
      year |-> ParseInt(SubSeq(t, 1, 4)),
      month |-> ParseInt(SubSeq(t, 6, 7)),
      day |-> ParseInt(SubSeq(t, 9, 10)),
      hour |-> ParseInt(SubSeq(t, 12, 13)),
      minute |-> ParseInt(SubSeq(t, 15, 16)),
      second |-> IF hasSec THEN ParseInt(SubSeq(t, 18, 19)) ELSE 0,
      millisecond |-> Millisecond(SubSeq(t, 21, 20 + fracLen)),
      offsetMinutes |-> offsetMinutes ]

\* The end of the pattern, (?:\s*(Z|z|...))?$, on what follows the time.
MatchRest(t, hasSec, fracLen, rest, zone) ==
    IF rest = <<>> THEN MatchFields(t, hasSec, fracLen, JsNull)
    ELSE IF zone.ok THEN MatchFields(t, hasSec, fracLen, zone.offsetMinutes)
    ELSE NoMatch

\* The first character after the seconds and the fraction.
AfterTime(hasSec, fracLen) ==
    IF ~hasSec THEN 17 ELSE IF fracLen = 0 THEN 20 ELSE 21 + fracLen

MatchTail(t, hasSec, fracLen, rest) ==
    MatchRest(t, hasSec, fracLen, rest, ZoneOf(TrimStart(rest)))

\* trimmed.match(ISOishRegex) and the numbers the code parses from its groups.
ISOishMatch(t) ==
    IF ~HeadOk(t) THEN NoMatch
    ELSE MatchTail(t, HasSec(t), FracLen(t),
                   SubSeq(t, AfterTime(HasSec(t), FracLen(t)), Len(t)))

\* The day number of a civil date, and the civil date of a day number
\* (days since 1970-01-01, proleptic Gregorian calendar).
DaysFromCivil(y, m, d) ==
    LET yy == IF m <= 2 THEN y - 1 ELSE y
        era == yy \div 400
        yoe == yy - era * 400
        mp == IF m > 2 THEN m - 3 ELSE m + 9
        doy == (153 * mp + 2) \div 5 + d - 1
        doe == yoe * 365 + yoe \div 4 - yoe \div 100 + doy
    IN era * 146097 + doe - 719468

CivilFromDays(z) ==
    LET zz == z + 719468
        era == zz \div 146097
        doe == zz - era * 146097
        yoe == (doe - doe \div 1460 + doe \div 36524 - doe \div 146096) \div 365
        doy == doe - (365 * yoe + yoe \div 4 - yoe \div 100)
        mp == (5 * doy + 2) \div 153
        d == doy - (153 * mp + 2) \div 5 + 1
        m == IF mp < 10 THEN mp + 3 ELSE mp - 9
    IN [ year |-> yoe + era * 400 + (IF m <= 2 THEN 1 ELSE 0), month |-> m, day |-> d ]

\* Date.UTC(year, month - 1, day, ...): the day number. Years 0 to 99 are
\* taken as 1900 to 1999; a month or day out of range carries over.
UtcDay(year, month, day) ==
    LET fullYear == IF year >= 0 /\ year <= 99 THEN 1900 + year ELSE year
        m0 == month - 1
    IN DaysFromCivil(fullYear + m0 \div 12, (m0 % 12) + 1, 1) + day - 1

\* The getters of a Date in a time zone tz minutes east of UTC, for the
\* instant that is `minutes` minutes and `second` seconds after the start of
\* UTC day `day`.
LocalParts(day, minutes, second, millisecond, tz, offsetMinutes) ==
    LET total == minutes + second \div 60 + tz
        civil == CivilFromDays(day + total \div 1440)
        ofDay == total % 1440
    IN [ kind |-> "parts",
         year |-> civil.year, month |-> civil.month, day |-> civil.day,
         hour |-> ofDay \div 60, minute |-> ofDay % 60, second |-> second % 60,
         millisecond |-> millisecond, offsetMinutes |-> offsetMinutes ]

\* The parts of a match: Date.UTC of the fields, less the offset, read in
\* the time zone of the runtime.
MatchParts(isoMatch, off, tz) ==
    LocalParts(UtcDay(isoMatch.year, isoMatch.month, isoMatch.day),
               isoMatch.hour * 60 + isoMatch.minute - off,
               isoMatch.second, isoMatch.millisecond, tz, isoMatch.offsetMinutes)

\* new Date(trimmed) for a string the pattern rejects.
FallbackParts(fallback, tz) ==
    IF fallback = JsNaN THEN JsNull
    ELSE LocalParts(fallback.day, fallback.minute, fallback.second,
                    fallback.millisecond, tz, JsNull)

PartsOf(isoMatch, tz, fallback) ==
    IF isoMatch.matched
    THEN MatchParts(isoMatch,
                    IF isoMatch.offsetMinutes = JsNull THEN 0 ELSE isoMatch.offsetMinutes.n,
                    tz)
    ELSE FallbackParts(fallback, tz)

ParseTrimmed(trimmed, tz, fallback) ==
    IF trimmed = Throws THEN Throws
    ELSE IF trimmed.chars = <<>> THEN JsNull
    ELSE PartsOf(ISOishMatch(trimmed.chars), tz, fallback)

\* parseTimestampParts. tz is the time zone of the runtime; fallback is what
\* new Date(trimmed) gives for a string the pattern rejects, which the
\* language leaves to the implementation: NaN or an instant.
parseTimestampParts(raw, tz, fallback) ==
    IF Falsy(raw) THEN JsNull ELSE ParseTrimmed(TrimCall(raw), tz, fallback)

\* `${parts.year}-${pad(parts.month)}-... ${pad(parts.second)}`
Base(parts) ==
    Digits(parts.year) \o << "-" >> \o pad(parts.month) \o << "-" >> \o pad(parts.day)
        \o << " " >> \o pad(parts.hour) \o << ":" >> \o pad(parts.minute)
        \o << ":" >> \o pad(parts.second)

\* ` UTC${sign}${offsetHours}:${offsetRemainingMinutes}`
Suffix(offsetMinutes) ==
    << " ", "U", "T", "C", IF offsetMinutes >= 0 THEN "+" ELSE "-" >>
        \o pad(Abs(offsetMinutes) \div 60) \o << ":" >> \o pad(Abs(offsetMinutes) % 60)

\* raw?.trim() ? raw.trim() : null
TrimmedOrNull(raw) ==
    IF IsNullish(raw) \/ TrimCall(raw).chars = <<>> THEN JsNull ELSE TrimCall(raw)

FormatParts(raw, parts) ==
    IF parts = Throws THEN Throws
    ELSE IF parts = JsNull THEN TrimmedOrNull(raw)
    ELSE IF parts.offsetMinutes = JsNull THEN Str(Base(parts))
    ELSE Str(Base(parts) \o Suffix(parts.offsetMinutes.n))

\* formatTimestamp
formatTimestamp(raw, tz, fallback) ==
    FormatParts(raw, parseTimestampParts(raw, tz, fallback))

\* Timestamps as a response can carry them, with and without surrounding
\* white space.
StampCores ==
    { <<>>,
      << "n", "/", "a" >>,
      << "a", " ", "b" >>,
      << "2", "0", "2", "4", "-", "1", "-", "2", " ", "0", "3", ":", "0", "4" >>,
      << "2", "0", "2", "4", "-", "0", "1", "-", "0", "2", " ", "0", "3", ":", "0", "4",
         ":", "5" >>,
      << "2", "0", "2", "4", "-", "0", "2", "-", "2", "9", " ", "2", "3", ":", "3", "0" >>,
      << "2", "0", "2", "4", "-", "0", "2", "-", "2", "9", "T", "2", "3", ":", "3", "0",
         ":", "5", "9", "Z" >>,
      << "2", "0", "2", "4", "-", "1", "2", "-", "3", "1", " ", "2", "3", ":", "3", "0",
         ":", "5", "9", ".", "1", "2", "3", "4", "+", "0", "5", ":", "3", "0" >>,
      << "2", "0", "2", "4", "-", "0", "1", "-", "0", "1", " ", "0", "0", ":", "1", "5",
         ":", "0", "0", ",", "5", " ", "-", "0", "8", "0", "0" >>,
      << "2", "0", "2", "4", "-", "0", "1", "-", "0", "2", "T", "0", "3", ":", "0", "4", ":", "0", "5", "z" >>,
      << "2", "0", "2", "4", "-", "0", "1", "-", "0", "2", " ", "0", "3", ":", "0", "4", "-", "0", "0", ":", "0", "0" >>,
      << "2", "0", "2", "4", "-", "0", "6", "-", "3", "0", " ", "2", "2", ":", "1", "0", ":", "0", "0", "+", "0", "5", "7", "5" >> }

Paddings == SeqsOf(WhiteSpace, 0, MaxPad)

RawInputs ==
    { JsNull, JsUndefined }
        \cup { Str(lead \o core \o trail) :
                 lead \in Paddings, core \in StampCores, trail \in Paddings }

LocalOffsets == { -300, 0, 330 }

\* 2024-02-29 12:34:05 UTC
FallbackInputs ==
    { JsNaN,
      [ kind |-> "date", day |-> 19782, minute |-> 754, second |-> 5, millisecond |-> 0 ] }

TimestampInputs ==
    { [ present |-> TRUE, raw |-> r, tz |-> z, fallback |-> f ] :
        r \in RawInputs, z \in LocalOffsets, f \in FallbackInputs }

InitTimestamp == Parked /\ fin \in TimestampInputs /\ fout = NoData

Reformat ==
    Apply([ present |-> TRUE,
            parts |-> parseTimestampParts(fin.raw, fin.tz, fin.fallback),
            result |-> formatTimestamp(fin.raw, fin.tz, fin.fallback) ])

NextTimestamp == Reformat

SpecTimestamp == InitTimestamp /\ [][NextTimestamp]_vars

\* ------------------------------------------------------------- text wrapping
MaxText == 6       \* characters of a header text
MaxWidth == 3      \* widest maxWidth tried, in character widths

\* text.split(/\s+/): the words between runs of white space, with an empty
\* word before leading and after trailing white space.
RECURSIVE SplitWords(_, _, _)
SplitWords(rest, cur, acc) ==
    IF rest = <<>> THEN Append(acc, cur)
    ELSE IF Head(rest) \in WhiteSpace
    THEN SplitWords(TrimStart(Tail(rest)), <<>>, Append(acc, cur))
    ELSE SplitWords(Tail(rest), Append(cur, Head(rest)), acc)

\* ctx.measureText(text).width, every character one unit wide.
MeasureText(text) == Len(text)

\* line ? `${line} ${word}` : word
TestLine(line, word) == IF line # <<>> THEN line \o << " " >> \o word ELSE word

\* The loop of wrapText over the words, and the push of the last line.
RECURSIVE WrapLines(_, _, _, _)
WrapLines(words, line, lines, maxWidth) ==
    IF words = <<>> THEN (IF line # <<>> THEN Append(lines, line) ELSE lines)
    ELSE IF MeasureText(TestLine(line, Head(words))) > maxWidth /\ line # <<>>
    THEN WrapLines(Tail(words), Head(words), Append(lines, line), maxWidth)
    ELSE WrapLines(Tail(words), TestLine(line, Head(words)), lines, maxWidth)

\* wrapText: the lines it draws and the count it returns.
wrapText(text, maxWidth) ==
    [ present |-> TRUE,
      lines |-> WrapLines(SplitWords(text, <<>>, <<>>), <<>>, <<>>, maxWidth),
      count |-> Len(WrapLines(SplitWords(text, <<>>, <<>>), <<>>, <<>>, maxWidth)) ]

WrapInputs ==
    { [ present |-> TRUE, text |-> t, maxWidth |-> w ] :
        t \in SeqsOf({ "a", " " }, 0, MaxText), w \in 0 .. MaxWidth }

InitWrap == Parked /\ fin \in WrapInputs /\ fout = NoData

WrapHeader == Apply(wrapText(fin.text, fin.maxWidth))

NextWrap == WrapHeader

SpecWrap == InitWrap /\ [][NextWrap]_vars

\* ------------------------------------------------------------- storage keys
MaxHouseLen == 2   \* pieces of a household id

\* Household ids are free text (the route parameter, the login input): here a
\* letter, the piece ":heatmap", or both in a row.
HouseInputs == SeqsOf({ "A", ":heatmap" }, 1, MaxHouseLen)

KeyInputs ==
    { [ present |-> TRUE, panel1 |-> p1, house1 |-> h1, panel2 |-> p2, house2 |-> h2 ] :
        p1 \in Panels, h1 \in HouseInputs, p2 \in Panels, h2 \in HouseInputs }

InitKeys == Parked /\ fin \in KeyInputs /\ fout = NoData

\* The keys two panels use, each for its household.
BuildKeys ==
    Apply([ present |-> TRUE,
            key1 |-> StorageKey(fin.panel1, fin.house1),
            key2 |-> StorageKey(fin.panel2, fin.house2) ])

NextKeys == BuildKeys

SpecKeys == InitKeys /\ [][NextKeys]_vars

\* ---------------------------------------------------------- metric subsets
MaxMetrics == 2    \* entries of a metric catalog and of an allowed-metrics list

MetricNames == { "co2", "CO2", "temp", "TEMP" }

SubsetInputs ==
    { [ present |-> TRUE, all |-> c, allowed |-> a ] :
        c \in SeqsOf(MetricNames, 0, MaxMetrics), a \in SeqsOf(MetricNames, 0, MaxMetrics) }

InitMetrics == Parked /\ fin \in SubsetInputs /\ fout = NoData

\* The filteredMetrics memo of each panel for one catalog and one allowed list.
FilterMetrics ==
    Apply([ present |-> TRUE,
            timeseries |-> FilteredMetrics(fin.all, fin.allowed),
            scatter |-> FilteredMetrics(fin.all, fin.allowed),
            heatmap |-> FilteredMetricsHm(fin.all, fin.allowed) ])

NextMetrics == FilterMetrics

SpecMetrics == InitMetrics /\ [][NextMetrics]_vars

\* ------------------------------------------------------------ properties
PanelData(p) ==
    CASE p = "timeseries" -> ts.tsData
      [] p = "scatter" -> sc.data
      [] p = "heatmap" -> hm.data

HasSection(kind) == \E i \in DOMAIN rep.sections : rep.sections[i].kind = kind

\* C1: the data a panel holds is the response of the fetch that panel
\* initiated last; no response of a superseded request becomes its data, and
\* no panel has two of its chart requests in flight.
C1_LatestFetchOnly ==
    /\ \A p \in Panels : PanelData(p).present => PanelData(p).req = latest[p]
    /\ \A r1, r2 \in net :
          (r1.kind = "chart" /\ r2.kind = "chart" /\ r1.panel = r2.panel /\ Live(r1) /\ Live(r2))
              => r1 = r2

\* The time-series panel holds the data of its second load.
C1_Witness ==
    /\ ts.tsData.present
    /\ ts.tsData.req = 2
    /\ latest = [ p \in Panels |-> IF p = "timeseries" THEN 2 ELSE 0 ]

\* C2: once a panel is torn down, neither the answer nor the failure of its
\* metric-catalog fetch or of its sensor-list fetch calls a state setter of
\* the defunct panel.
C2_SupportingFetchesCancelled == defunct.kind \notin { "metrics", "sensors" }

\* C3: the filters of every collected section are the parameters of the
\* request that produced the section's data, not the controls' values at the
\* time of the export.
C3_FiltersAreRequestParams ==
    \A i \in DOMAIN rep.sections :
        LET s == rep.sections[i]
            q == s.data.query
        IN CASE s.kind = "timeseries" ->
                  s.filters = [ serial |-> q.serial_number, metric |-> q.metric,
                                interval |-> q.interval, aggregate |-> q.agg,
                                range |-> q.range ]
             [] s.kind = "scatter" ->
                  s.filters = [ serial |-> q.serial_number, xMetric |-> q.x_metric,
                                yMetric |-> q.y_metric, interval |-> q.interval,
                                range |-> q.range ]
             [] s.kind = "heatmap" ->
                  s.filters = [ serial |-> q.serial_number, interval |-> q.interval,
                                aggregate |-> q.agg, range |-> q.range,
                                selectedMetrics |-> IF q.metrics # <<>> THEN q.metrics
                                                    ELSE s.data.rowMetrics,
                                diseaseKey |-> q.disease_key, diseaseName |-> DiseaseName ]

\* C4: a collection that yields no section never reaches
\* downloadChartsReport, and when the three panels were asked and none threw
\* it ends with the alert that asks to load a chart first.
C4_NoExportWithoutSections ==
    /\ rep.sections = <<>> => ~rep.exported.present
    /\ (rep.pc = "done" /\ rep.asked = Panels /\ rep.threw = {} /\ rep.sections = <<>>)
          => rep.alert = LoadFirstAlert

\* The three panels were asked, none yielded a section, the alert is shown.
C4_Witness ==
    /\ rep.pc = "done"
    /\ rep.asked = Panels
    /\ rep.sections = <<>>
    /\ rep.alert = LoadFirstAlert
    /\ ~rep.exported.present

\* C5: given a report whose section list is empty, the document builder
\* produces no document.
C5_ComposerRefusesEmpty == (fin.present /\ fin.sections = <<>>) => ~fout.present

\* C6: the collected sections, and those of the exported report, are in the
\* order time-series, scatter, heatmap, each kind at most once.
C6_FixedSectionOrder ==
    LET rank(k) == CASE k = "timeseries" -> 1 [] k = "scatter" -> 2 [] k = "heatmap" -> 3
        ordered(ss) == \A i, j \in DOMAIN ss : i < j => rank(ss[i].kind) < rank(ss[j].kind)
    IN /\ ordered(rep.sections)
       /\ rep.exported.present => ordered(rep.exported.report.sections)

\* A report is exported with the time-series section before the heatmap
\* section although the heatmap was loaded first.
C6_Witness ==
    /\ rep.exported.present
    /\ Len(rep.exported.report.sections) = 2
    /\ rep.exported.report.sections[1].kind = "timeseries"
    /\ rep.exported.report.sections[2].kind = "heatmap"
    /\ rep.exported.report.sections[2].data.req < rep.exported.report.sections[1].data.req

\* C7: at most one getReportSection of a collection is in progress; the
\* scatter panel is asked only after the time-series panel has answered, the
\* heatmap panel only after the scatter panel has.
C7_SnapshotsSequential ==
    /\ Cardinality(rep.running) <= 1
    /\ "scatter" \in (rep.running \cup rep.asked) => "timeseries" \in rep.asked
    /\ "heatmap" \in (rep.running \cup rep.asked) => "scatter" \in rep.asked

\* The heatmap snapshot is in progress, the other two have completed.
C7_Witness ==
    /\ rep.pc = "collect"
    /\ rep.running = { "heatmap" }
    /\ rep.asked = { "timeseries", "scatter" }

\* C8: a collected section carries the data its panel holds, that data is not
\* degenerate, the scatter panel shows its chart, and no heatmap section is
\* collected without a 2D context.
C8_SectionOnlyIfRendered ==
    /\ \A i \in DOMAIN rep.sections :
          LET s == rep.sections[i] IN
          /\ s.data.present
          /\ s.data = PanelData(s.kind)
          /\ CASE s.kind = "timeseries" -> s.data.shape.labels > 0 /\ s.data.shape.points > 0
               [] s.kind = "scatter" -> s.data.shape.points > 0 /\ sc.state = "success"
               [] s.kind = "heatmap" -> s.data.shape.labels > 0 /\ s.data.shape.rows > 0
    /\ rep.noContext => ~HasSection("heatmap")

\* The time-series panel holds a response without data points, the heatmap
\* panel a full one but no 2D context: neither yielded a section.
C8_Witness ==
    /\ rep.pc = "done"
    /\ rep.asked = Panels
    /\ ts.tsData.present /\ ts.tsData.shape.labels > 0 /\ ts.tsData.shape.points = 0
    /\ hm.data.present /\ hm.data.shape.labels > 0 /\ hm.data.shape.rows > 0
    /\ rep.noContext
    /\ rep.sections = <<>>

\* C9: a collection that has ended with sections of some panels exports
\* them, whatever happened to the capture of another panel.
C9_CaptureFailureOmitsOnlyThatSection ==
    (rep.pc = "done" /\ rep.sections # <<>>) => rep.exported.present

\* C10: a step in which a load of one panel fails (its error is set) leaves
\* the state of the other two panels unchanged and their load buttons enabled
\* if they were.
C10_PanelIsolation ==
    [][ /\ (ts.tsError' # ts.tsError /\ ts.tsError' # Null)
            => /\ sc' = sc /\ hm' = hm
               /\ LoadEnabledSc => LoadEnabledSc'
               /\ LoadEnabledHm => LoadEnabledHm'
        /\ (sc.error' # sc.error /\ sc.error' # Null)
            => /\ ts' = ts /\ hm' = hm
               /\ LoadEnabledTs => LoadEnabledTs'
               /\ LoadEnabledHm => LoadEnabledHm'
        /\ (hm.error' # hm.error /\ hm.error' # Null)
            => /\ ts' = ts /\ sc' = sc
               /\ LoadEnabledTs => LoadEnabledTs'
               /\ LoadEnabledSc => LoadEnabledSc' ]_vars

\* The time-series load has failed while the heatmap panel keeps its data and
\* an enabled load button.
C10_Witness ==
    /\ ts.tsError # Null
    /\ hm.data.present
    /\ hm.error = Null
    /\ LoadEnabledHm

\* C11: a load handler called without a sensor serial, or without the
\* metric(s) its panel needs, sets a validation message and does not reach
\* its fetch.
C11_ValidationBeforeRequest ==
    fout.present =>
        LET missing ==
              \/ fin.serial = ""
              \/ fin.panel = "timeseries" /\ fin.metric = ""
              \/ fin.panel = "scatter" /\ (fin.xMetric = "" \/ fin.yMetric = "")
              \/ fin.panel = "heatmap" /\ fin.selectedMetrics = <<>> /\ fin.allowedMetrics = <<>>
        IN missing => (fout.error # Null /\ fout.error # "" /\ ~fout.fetched)

\* loadHeatmap was called with a serial, no selected metric and no disease
\* metric list.
C11_Witness ==
    /\ fout.present
    /\ fin.panel = "heatmap"
    /\ fin.serial = "S1"
    /\ fin.selectedMetrics = <<>>
    /\ fin.allowedMetrics = <<>>
    /\ fout.error = "Please select at least one metric"
    /\ ~fout.fetched

\* C12: the canvas cell is resolved by precedence: no sensor, else disabled,
\* else no data (null value or null risk), else the risk colour with the
\* value as text; the first three carry no text.
C12_CellPrecedence ==
    fout.present =>
        LET c == fout.canvas IN
        IF ~fin.has_sensor THEN c.status = "no sensor" /\ c.fill = NO_SENSOR_COLOR /\ c.text = JsNull
        ELSE IF ~fin.enabled THEN c.status = "disabled" /\ c.fill = DISABLED_COLOR /\ c.text = JsNull
        ELSE IF IsNullish(fin.value) \/ fin.risk.kind # "num"
             THEN c.status = "no data" /\ c.fill = NO_DATA_COLOR /\ c.text = JsNull
        ELSE /\ c.status = "risk"
             /\ c.fill \notin { NO_SENSOR_COLOR, DISABLED_COLOR, NO_DATA_COLOR }
             /\ c.text = [ kind |-> "toFixed(1)", n |-> fin.value.n ]

\* A row without a sensor that is enabled and has a value and a risk is drawn
\* as "no sensor".
C12_Witness ==
    /\ fout.present
    /\ ~fin.has_sensor /\ fin.enabled
    /\ fin.value = Num(215) /\ fin.risk = Num(5)
    /\ fout.canvas.status = "no sensor"

\* C13: the canvas renderer and renderCell pick the same status and the same
\* background colour for every cell.
C13_ExportMatchesScreen ==
    fout.present =>
        /\ fout.canvas.status = fout.screen.status
        /\ fout.canvas.fill = fout.screen.fill

\* A cell with a risk above 1 is risk-coloured in both renderings.
C13_Witness ==
    /\ fout.present
    /\ fin.has_sensor /\ fin.enabled
    /\ fin.value = Num(215) /\ fin.risk = Num(MaxRisk)
    /\ fout.canvas.status = "risk"
    /\ fout.screen.fill = colorForRisk(Num(RiskDen))

\* C14: the last column and column 0 are among the ticks drawn.
C14_LastTickDrawn ==
    fout.present =>
        /\ (fin.cols - 1) \in (fout.stride \cup fout.forced)
        /\ 0 \in (fout.stride \cup fout.forced)

\* 30 columns: the stride is 3, column 29 is off the stride and drawn.
C14_Witness ==
    /\ fout.present
    /\ fin.cols = 30
    /\ 29 \notin fout.stride
    /\ fout.forced = { 29 }

\* C15: the stride ticks and the forced last tick are at most 12 together.
C15_AtMostTwelveTicks ==
    fout.present => Cardinality(fout.stride) + Cardinality(fout.forced) <= 12

\* C16: the time ticks of N labels are min(6, N) indices, at most 6,
\* strictly increasing, within 0 .. N-1, the first 0 and the last N-1, and
\* evenly spaced: tick i is round(i*(N-1)/(k-1)) and any two gaps between
\* neighbours differ by at most 1.
C16_TimeTicks ==
    fout.present =>
        LET t == fout.xTickIdx
            n == fin.labels
            k == IF n < 6 THEN n ELSE 6
        IN /\ Len(t) = k
           /\ Len(t) <= 6
           /\ \A i \in DOMAIN t : 0 <= t[i] /\ t[i] <= n - 1
           /\ \A i, j \in DOMAIN t : i < j => t[i] < t[j]
           /\ t[1] = 0
           /\ t[Len(t)] = n - 1
           /\ \A i \in DOMAIN t :
                 k > 1 => (2 * (k - 1) * t[i] - 2 * (i - 1) * (n - 1) <= (k - 1)
                           /\ 2 * (i - 1) * (n - 1) - 2 * (k - 1) * t[i] < (k - 1))
           /\ \A i, j \in 1 .. (Len(t) - 1) :
                 (t[i + 1] - t[i]) - (t[j + 1] - t[j]) <= 1

\* 30 labels: six ticks, 29 the last.
C16_Witness ==
    /\ fout.present
    /\ fin.labels = 30
    /\ fout.xTickIdx = << 0, 6, 12, 17, 23, 29 >>

\* C17: every data value and every threshold value lies in [y0, y1], and
\* its pixel position lies between the top margin and the bottom margin.
C17_DomainCoversThresholds ==
    (fout.present /\ fin.chart = "timeseries") =>
        \A v \in Range(fin.data) \cup Range(fin.thresholds) :
            /\ fout.y0 <= v /\ v <= fout.y1
            /\ ChartPadding.top * fout.yDiv <= YScaleNum(v, fout.y0, fout.y1)
            /\ YScaleNum(v, fout.y0, fout.y1) <= (ChartHeight - ChartPadding.bottom) * fout.yDiv

\* A threshold above and one below all the data.
C17_Witness ==
    /\ fout.present /\ fin.chart = "timeseries"
    /\ fin.data = << 0 >>
    /\ fin.thresholds = << 3, -2 >>
    /\ fout.y0 = -2 /\ fout.y1 = 3

\* C18: the divisors of the time-series scales are positive; the padded
\* scatter range of each axis has a positive span: 0.2*|v| for min = max =
\* v # 0, positive for min = max = 0, 1.10*(max - min) for min < max.
C18_NoDivisionByZero ==
    fout.present =>
        IF fin.chart = "timeseries"
        THEN fout.xDiv > 0 /\ fout.yDiv > 0
        ELSE LET ok(min, max, r) ==
                   /\ r.hi - r.lo > 0
                   /\ (min = max /\ min # 0) => (r.hi - r.lo) * 10 = 2 * Abs(min) * 20
                   /\ min < max => (r.hi - r.lo) * 100 = 110 * (max - min) * 20
             IN ok(fout.minX, fout.maxX, fout.x) /\ ok(fout.minY, fout.maxY, fout.y)

\* One scatter point at the origin without thresholds: both axes are padded
\* to a positive span.
C18_Witness ==
    /\ fout.present /\ fin.chart = "scatter"
    /\ fin.points = << << 0, 0 >> >>
    /\ fin.xThresholds = <<>> /\ fin.yThresholds = <<>>
    /\ fout.x.hi - fout.x.lo > 0
    /\ fout.y.hi - fout.y.lo > 0

\* C19: a numeric risk is clamped into [0, 1]; the colour of a risk cell has a
\* hue of 120 - 120*risk within [0, 120] that is strictly above the hue of every
\* higher risk and strictly below the hue of every lower one, a lightness of
\* 65 - 20*risk within [45, 65], and the two calls made for the same risk (the
\* export's and the screen's) return the same colour.
C19_RiskColor ==
    fout.present =>
        /\ fin.risk.kind = "num" =>
              /\ fout.clamped.kind = "num"
              /\ fout.clamped.n >= 0 /\ fout.clamped.n <= RiskDen
        /\ fout.canvas.status = "risk" =>
              LET c == fout.canvas.fill
                  r == fout.clamped.n
              IN /\ c.hue = 120 * RiskDen - 120 * r
                 /\ c.hue >= 0 /\ c.hue <= 120 * RiskDen
                 /\ c.light = 65 * RiskDen - 20 * r
                 /\ c.light >= 45 * RiskDen /\ c.light <= 65 * RiskDen
                 /\ \A q \in 0 .. RiskDen :
                       /\ q > r => colorForRisk(Num(q)).hue < c.hue
                       /\ q < r => colorForRisk(Num(q)).hue > c.hue
                 /\ fout.screen.fill = c
                 /\ colorForRisk(fout.clamped) = c

\* A cell with a risk strictly between 0 and 1 has been coloured.
C19_Witness ==
    /\ fout.present
    /\ fin.has_sensor /\ fin.enabled
    /\ fin.value = Num(0) /\ fin.risk = Num(3)
    /\ fout.clamped = Num(3)
    /\ fout.canvas.status = "risk"
    /\ fout.canvas.fill.hue = 120 * RiskDen - 360

\* White space only, or no characters at all.
OnlyWhiteSpace(chars) == \A i \in DOMAIN chars : chars[i] \in WhiteSpace

\* t is chars without the white space at its two ends.
IsTrimOf(t, chars) ==
    \E i, j \in DOMAIN chars :
        /\ i <= j
        /\ t = SubSeq(chars, i, j)
        /\ chars[i] \notin WhiteSpace /\ chars[j] \notin WhiteSpace
        /\ \A k \in DOMAIN chars : (k < i \/ k > j) => chars[k] \in WhiteSpace

\* C20: formatTimestamp never throws; null, undefined, the empty string and
\* white space only give null; a string with other characters that the pattern
\* rejects and new Date cannot read comes back trimmed and otherwise unchanged.
C20_ReformatFallback ==
    fout.present =>
        /\ fout.result.kind # "throws"
        /\ (IsNullish(fin.raw) \/ OnlyWhiteSpace(fin.raw.chars)) => fout.result = JsNull
        /\ ( /\ ~IsNullish(fin.raw)
             /\ ~OnlyWhiteSpace(fin.raw.chars)
             /\ ~ISOishMatch(Trim(fin.raw.chars)).matched
             /\ fin.fallback = JsNaN )
           => /\ fout.result.kind = "str"
              /\ IsTrimOf(fout.result.chars, fin.raw.chars)

\* A padded "n/a" has come back as "n/a".
C20_Witness ==
    /\ fout.present
    /\ fin.raw = Str(<< " ", "n", "/", "a", "\t", " " >>)
    /\ fin.fallback = JsNaN
    /\ fout.result = Str(<< "n", "/", "a" >>)

\* White space only has come back as null.
C20_WitnessBlank ==
    /\ fout.present
    /\ fin.raw = Str(<< " ", "\t" >>)
    /\ fout.result = JsNull

TwoDigits(a, b) == DigitVal(a) * 10 + DigitVal(b)

\* The offset the zone token at the end of a strict-pattern string t stands for.
TokenOffset(t) ==
    LET n == Len(t)
    IN IF t[n] \in { "Z", "z" } THEN Num(0)
       ELSE IF n >= 22 /\ t[n - 5] \in { "+", "-" } /\ t[n - 2] = ":"
       THEN Num((IF t[n - 5] = "-" THEN -1 ELSE 1)
                  * (TwoDigits(t[n - 4], t[n - 3]) * 60 + TwoDigits(t[n - 1], t[n])))
       ELSE IF n >= 21 /\ t[n - 4] \in { "+", "-" }
       THEN Num((IF t[n - 4] = "-" THEN -1 ELSE 1)
                  * (TwoDigits(t[n - 3], t[n - 2]) * 60 + TwoDigits(t[n - 1], t[n])))
       ELSE JsNull

\* " UTC+HH:MM" or " UTC-HH:MM" for an offset of fewer than 100 hours.
UtcSuffix(minutes) ==
    << " ", "U", "T", "C", IF minutes >= 0 THEN "+" ELSE "-",
       DigitChars[(Abs(minutes) \div 600) + 1], DigitChars[((Abs(minutes) \div 60) % 10) + 1],
       ":",
       DigitChars[((Abs(minutes) % 60) \div 10) + 1], DigitChars[(Abs(minutes) % 10) + 1] >>

EndsWith(chars, tail) ==
    /\ Len(chars) >= Len(tail)
    /\ SubSeq(chars, Len(chars) - Len(tail) + 1, Len(chars)) = tail

\* C21: for a string the strict pattern accepts, offsetMinutes is 0 for Z or z,
\* sign * (hours * 60 + minutes) for a signed offset and null without a zone
\* token; the reformatted string ends in the UTC+HH:MM / UTC-HH:MM suffix of
\* that offset, and has no suffix when the offset is null.
C21_OffsetAndSuffix ==
    (fout.present /\ ~IsNullish(fin.raw) /\ ISOishMatch(Trim(fin.raw.chars)).matched) =>
        LET expected == TokenOffset(Trim(fin.raw.chars))
        IN /\ fout.parts.offsetMinutes = expected
           /\ fout.result.kind = "str"
           /\ IF expected = JsNull
              THEN /\ "U" \notin Range(fout.result.chars)
                   /\ IsDigit(fout.result.chars[Len(fout.result.chars)])
              ELSE EndsWith(fout.result.chars, UtcSuffix(expected.n))

\* A stamp with the zone -0800 has been reformatted with the suffix UTC-08:00.
C21_Witness ==
    /\ fout.present
    /\ ~IsNullish(fin.raw)
    /\ EndsWith(fin.raw.chars, << "-", "0", "8", "0", "0" >>)
    /\ fout.parts.offsetMinutes = Num(-480)
    /\ EndsWith(fout.result.chars, << " ", "U", "T", "C", "-", "0", "8", ":", "0", "0" >>)

\* The words of a text that have characters.
WordsOf(text) == SelectSeq(SplitWords(text, <<>>, <<>>), LAMBDA w : w # <<>>)

\* The widths of the lines when the words are broken after the words in B.
RECURSIVE LineWidths(_, _, _, _)
LineWidths(words, i, B, width) ==
    IF i > Len(words) THEN (IF width > 0 THEN { width } ELSE {})
    ELSE LET w == (IF width > 0 THEN width + 1 ELSE 0) + Len(words[i])
         IN IF i \in B THEN { w } \cup LineWidths(words, i + 1, B, 0)
            ELSE LineWidths(words, i + 1, B, w)

\* The fewest lines the words fit in, each line within maxWidth; -1 when
\* a word is wider than maxWidth.
FewestLines(words, maxWidth) ==
    LET fits == { B \in SUBSET (1 .. Len(words) - 1) :
                    \A w \in LineWidths(words, 1, B, 0) : w <= maxWidth }
    IN IF words = <<>> THEN 0
       ELSE IF fits = {} THEN -1
       ELSE MinOf({ Cardinality(B) + 1 : B \in fits })

\* C22: no line wrapText draws is wider than maxWidth, and the count it
\* returns is the number of lines drawn and the fewest lines the words fit in.
C22_MinimalFittingLines ==
    fout.present =>
        /\ \A i \in DOMAIN fout.lines : MeasureText(fout.lines[i]) <= fin.maxWidth
        /\ fout.count = Len(fout.lines)
        /\ fout.count = FewestLines(WordsOf(fin.text), fin.maxWidth)

\* The same, for texts whose words all fit in maxWidth.
C22_FitsWhenWordsFit ==
    (fout.present /\ \A i \in DOMAIN WordsOf(fin.text) :
                        Len(WordsOf(fin.text)[i]) <= fin.maxWidth) =>
        /\ \A i \in DOMAIN fout.lines : MeasureText(fout.lines[i]) <= fin.maxWidth
        /\ fout.count = Len(fout.lines)
        /\ fout.count = FewestLines(WordsOf(fin.text), fin.maxWidth)

\* The text of a key: its pieces in a row.  Two keys are the same entry of
\* localStorage when their texts are equal; equal pieces give equal texts.
\* C23: two different pairs of panel and household never use the same key.
C23_KeysInjective ==
    fout.present =>
        (<< fin.panel1, fin.house1 >> # << fin.panel2, fin.house2 >> => fout.key1 # fout.key2)

\* The state SpecHouse starts in.
HouseStart ==
    /\ tab = "charts" /\ inst = 1 /\ storage = << >> /\ loads = 0
    /\ faults = 0 /\ rep = RepInit /\ defunct = NoDefunct
    /\ ts = TsWithMetrics(TsInit, Catalog)
    /\ sc = ScWithMetrics(ScInit, Catalog)
    /\ hm = HmWithMetrics(HmInit, Catalog)
    /\ net = { [ panel |-> p, kind |-> "sensors", inst |-> 1, alive |-> TRUE,
                 house |-> HouseId ] : p \in Panels }

PanelState(p) ==
    CASE p = "timeseries" -> ts [] p = "scatter" -> sc [] p = "heatmap" -> hm

SensorsOutstanding(p) ==
    \E r \in net : r.kind = "sensors" /\ r.panel = p /\ Live(r)

\* C24: once no sensor-list fetch of a mounted panel is outstanding, the
\* panel's serial list and its selected serial are of the current household.
C24_SerialsOfCurrentHouse ==
    \A p \in Panels :
        (tab = "charts" /\ ~SensorsOutstanding(p)) =>
            /\ Range(PanelState(p).serials) \subseteq Range(SensorsOf(hid))
            /\ PanelState(p).serial \in Range(SensorsOf(hid)) \cup { "" }

\* C25: the serial stored under a household's key is a serial of one of
\* that household's sensors.
C25_StoredSerialOfHouse ==
    \A p \in Panels, h \in Houses :
        GetItem(StorageKey(p, h)) # Null => Includes(SensorsOf(h), GetItem(StorageKey(p, h)))

\* C27: no panel holds loaded data and an error message at once; a scatter
\* panel in state 'success' holds data and one in state 'error' an error message.
C27_DataXorError ==
    /\ ~(ts.tsData.present /\ ts.tsError # Null)
    /\ ~(sc.data.present /\ sc.error # Null)
    /\ ~(hm.data.present /\ hm.error # Null)
    /\ sc.state = "success" => sc.data.present
    /\ sc.state = "error" => sc.error # Null

Loading(p) ==
    CASE p = "timeseries" -> ts.tsLoading
      [] p = "scatter" -> sc.state = "loading"
      [] p = "heatmap" -> hm.loading

LoadEnabled(p) ==
    CASE p = "timeseries" -> LoadEnabledTs
      [] p = "scatter" -> LoadEnabledSc
      [] p = "heatmap" -> LoadEnabledHm

InFlight(p) == { r \in net : r.kind = "chart" /\ r.panel = p /\ Live(r) }

\* C26: a mounted panel has at most one chart request in flight; while it
\* has one, its loading flag is set and its load button is disabled, and the
\* flag is set only then; a panel that is loading eventually is not.
C26_OneLoadAtATime ==
    /\ [](\A p \in Panels :
            /\ Cardinality(InFlight(p)) <= 1
            /\ InFlight(p) # {} => (Loading(p) /\ ~LoadEnabled(p))
            /\ (tab = "charts" /\ Loading(p)) => InFlight(p) # {})
    /\ \A p \in Panels : Loading(p) ~> ~Loading(p)

\* The time-series panel's first load failed, its second load is in flight.
C26_Witness ==
    /\ faults = 1
    /\ latest["timeseries"] = 2
    /\ ts.tsLoading
    /\ InFlight("timeseries") # {}

IsPrefix(a, b) == Len(a) <= Len(b) /\ SubSeq(b, 1, Len(a)) = a

\* C28: one handleDownloadReport runs at a time: while reportDownloading is
\* set no step starts another collection (the panels asked and the sections
\* collected only grow until the flag is reset), the flag is set exactly
\* while a handler runs, and a set flag is eventually reset.
C28_OneExportAtATime ==
    /\ [](rep.reportDownloading <=> rep.pc # "idle")
    /\ [][(rep.reportDownloading /\ rep'.reportDownloading)
             => /\ rep.asked \subseteq rep'.asked
                /\ rep.asked # rep'.asked
                /\ IsPrefix(rep.sections, rep'.sections)]_rep
    /\ rep.reportDownloading ~> ~rep.reportDownloading

\* A handler that collected the time-series section has the scatter panel's
\* answer outstanding.
C28_Witness ==
    /\ rep.reportDownloading
    /\ rep.pc = "collect"
    /\ Len(rep.sections) = 1
    /\ rep.running = { "scatter" }

\* The panel's last load ended in an error (validation, HTTP or network).
Failed(p) ==
    CASE p = "timeseries" -> ts.tsError # Null
      [] p = "scatter" -> sc.state = "error"
      [] p = "heatmap" -> hm.error # Null

C30_SameMetricSubset ==
    fout.present =>
        /\ fout.timeseries = fout.scatter
        /\ fout.scatter = fout.heatmap
        /\ fin.allowed = <<>> => fout.timeseries = fin.all

\* The panels agree on a catalog whose metric names are in lower case.
C30_SameForLowerCaseCatalog ==
    (fout.present /\ \A i \in DOMAIN fin.all : Lower(fin.all[i]) = fin.all[i]) =>
        /\ fout.timeseries = fout.scatter
        /\ fout.scatter = fout.heatmap
        /\ fin.allowed = <<>> => fout.timeseries = fin.all
====
